---- MODULE Spec2Model ----
(***************************************************************************)
(* A model of the SMuFF Klipper module (klippy/extras/smuff.py): the       *)
(* serial protocol parser, the command/response synchronizer, the          *)
(* connection life cycle and the asynchronous tool change state machine.   *)
(*                                                                         *)
(* The SMuFF instance is one record, self, whose fields carry the names of *)
(* the Python attributes without the leading underscore.  Every method is  *)
(* an operator from the instance (and the method's inputs) to the instance *)
(* after the call, so that a handler which calls other methods is the      *)
(* composition of their operators.  Strings are TLA+ strings, handled with *)
(* Len/SubSeq the way the Python code slices them.                         *)
(*                                                                         *)
(* Threads: the Klipper reactor (GCode handlers and reactor timers, one at *)
(* a time), and the serial reader thread, which parses one line per step.  *)
(* A handler that blocks in _send_SMuFF_and_wait holds the reactor: its    *)
(* position is main.pc.                                                    *)
(***************************************************************************)
EXTENDS Integers, Sequences, FiniteSets, TLC

(***************************************************************************)
(* Bounds of the model                                                     *)
(***************************************************************************)
\* highest tool number the operator requests (the device has two tools)
MaxTool == 3
\* number of lines the reader thread receives in one run
MaxLines == 3
\* number of GCode commands the operator issues in one run
MaxCmds == 2
\* the clock stops here (time units stand for seconds)
MaxTime == 3
\* commandTimeout and toolchangeTimeout of smuff.cfg, in time units
CmdTimeout == 1
TcTimeout == 2

(***************************************************************************)
(* Python values                                                           *)
(***************************************************************************)
\* Python's None for the string valued attributes
None == "<None>"

\* str.startswith
StartsWith(s, p) == Len(s) >= Len(p) /\ SubSeq(s, 1, Len(p)) = p

\* s[i:] (i counts from 0)
From(s, i) == IF i >= Len(s) THEN "" ELSE SubSeq(s, i + 1, Len(s))

\* the character of s at position i (from 1)
Char(s, i) == SubSeq(s, i, i)

\* str.rstrip(chars), chars a set of characters
RECURSIVE RStrip(_, _)
RStrip(s, chars) ==
    IF Len(s) > 0 /\ Char(s, Len(s)) \in chars
    THEN RStrip(SubSeq(s, 1, Len(s) - 1), chars)
    ELSE s

\* str.lstrip(chars)
RECURSIVE LStrip(_, _)
LStrip(s, chars) ==
    IF Len(s) > 0 /\ Char(s, 1) \in chars
    THEN LStrip(From(s, 1), chars)
    ELSE s

Whitespace == {" ", "\n", "\t", "\r"}

\* str.rstrip() and str.strip() without argument
RStripWs(s) == RStrip(s, Whitespace)
StripWs(s) == LStrip(RStrip(s, Whitespace), Whitespace)

\* data.split(" ", 1)[0]: the text before the first blank
RECURSIVE FirstElement(_)
FirstElement(s) ==
    IF Len(s) = 0 \/ Char(s, 1) = " "
    THEN ""
    ELSE Char(s, 1) \o FirstElement(From(s, 1))

\* "".join(list)
RECURSIVE Join(_)
Join(list) == IF list = <<>> THEN "" ELSE Head(list) \o Join(Tail(list))

\* s.split() : the blank separated words of s
RECURSIVE Words(_)
Words(s) ==
    LET t == LStrip(s, Whitespace)
        w == FirstElement(t)
    IN  IF Len(t) = 0 THEN <<>>
        ELSE IF Len(w) = 0 THEN <<>>
        ELSE <<w>> \o Words(From(t, Len(w)))

Digits == {"0", "1", "2", "3", "4", "5", "6", "7", "8", "9"}

\* the longest prefix of s made of characters of chars
RECURSIVE Span(_, _)
Span(s, chars) ==
    IF Len(s) > 0 /\ Char(s, 1) \in chars
    THEN Char(s, 1) \o Span(From(s, 1), chars)
    ELSE ""

\* int(text) for a text of digits with an optional leading minus; -1 stands
\* for the ValueError the callers catch
DigitValue(c) ==
    CASE c = "0" -> 0 [] c = "1" -> 1 [] c = "2" -> 2 [] c = "3" -> 3
      [] c = "4" -> 4 [] c = "5" -> 5 [] c = "6" -> 6 [] c = "7" -> 7
      [] c = "8" -> 8 [] c = "9" -> 9

RECURSIVE NatOf(_, _)
NatOf(s, acc) ==
    IF Len(s) = 0 THEN acc
    ELSE NatOf(From(s, 1), 10 * acc + DigitValue(Char(s, 1)))

IsInt(s) ==
    LET body == IF StartsWith(s, "-") THEN From(s, 1) ELSE s
    IN  Len(body) > 0 /\ Span(body, Digits) = body

IntOf(s) ==
    IF StartsWith(s, "-") THEN 0 - NatOf(From(s, 1), 0) ELSE NatOf(s, 0)

(***************************************************************************)
(* Module constants (smuff.py, lines 186-362)                              *)
(***************************************************************************)
WD_TIMEOUT == 10

FWINFO == "M115"
PERSTATE == "M155"
OPT_ON == " S1"
WIPE == "G12"
CUT == "G12 C"
LIDOPEN == "M280 R0"
LIDCLOSE == "M280 R1"
HOME == "G28"
MOTORSOFF == "M18"
UNJAM == "M562"
TOOL == "T"
LOAD == "M700"
UNLOAD == "M701"
RESET == "M999"
AUTOLOAD == " S1"
ANY == "ANY"

\* SETSERVO.format(servo, pos) and SETPARAM.format(param, paramVal)
SETSERVO(servo, pos) == "M280 P" \o ToString(servo) \o " S" \o ToString(pos)
SETPARAM(param, paramVal) == "M205 P\"" \o param \o "\"S" \o paramVal

\* GETCONFIG.format(n)
GETCONFIG(n) == "M503 S" \o ToString(n) \o "W"

R_START == "start\n"
R_OK == "ok\n"
R_ECHO == "echo:"
R_DEBUG == "dbg:"
R_ERROR == "error:"
R_BUSY == "busy"
R_STATES == "states:"
R_UNKNOWNCMD == "Unknown command:"
R_JSON == "{"
R_JSONCAT == "/*"
R_FWINFO == "FIRMWARE_"

C_BASIC == "basic"
C_MATERIALS == "materials"
C_SWAPS == "tool swaps"
C_SERVOMAPS == "servo mapping"
C_FEEDSTATE == "feed state"

CFG_BASIC == 1
CFG_SERVOMAPS == 4
CFG_MATERIALS == 5
CFG_SWAPS == 6
CFG_FEEDSTATE == 8

ACTION_CMD == "//action:"
ACTION_WAIT == "WAIT"
ACTION_CONTINUE == "CONTINUE"
ACTION_ABORT == "ABORT"
ACTION_PONG == "PONG"

T_ON == "on"

(***************************************************************************)
(* The instance after __init__ (which ends with _reset and the initial     *)
(* watchdog timeout).  serial stands for "self._serial and                 *)
(* self._serial.is_open"; written is what the serial port has been given;  *)
(* tcTimer and okTimer are TRUE while the reactor timer is registered;     *)
(* sreader, swatchdog and sconnector are TRUE while the attribute holds a  *)
(* thread, lost is TRUE while self._serial is a port that was closed        *)
(* underneath the module, readers and watchdogs count the loops of _serial_reader and of   *)
(* _serial_watchdog that are running.  The attributes that are only        *)
(* written (_stCount,                                                      *)
(* _lastSerialEvent, _usesTmc, _tmcWarning, _spl) are left out.            *)
(***************************************************************************)
SMuFF ==
    [ serial        |-> FALSE,
      written       |-> <<>>,
      fwInfo        |-> "?",
      curTool       |-> "T-1",
      preTool       |-> "T-1",
      pendingTool   |-> -1,
      activeTool    |-> -1,
      selector      |-> FALSE,
      revolver      |-> FALSE,
      feeder        |-> FALSE,
      feeder2       |-> FALSE,
      isBusy        |-> FALSE,
      isError       |-> FALSE,
      response      |-> None,
      waitRequested |-> FALSE,
      abortRequested |-> FALSE,
      isProcessing  |-> FALSE,
      isReconnect   |-> FALSE,
      isConnected   |-> FALSE,
      serEvent      |-> FALSE,
      serWdEvent    |-> FALSE,
      sdcard        |-> FALSE,
      cfgChange     |-> FALSE,
      lid           |-> FALSE,
      isIdle        |-> FALSE,
      lastResponse  |-> <<>>,
      device        |-> "",
      toolCount     |-> 0,
      hasCutter     |-> TRUE,
      hasSplitter   |-> FALSE,
      isDDE         |-> FALSE,
      stopSerial    |-> FALSE,
      sreader       |-> FALSE,
      sconnector    |-> FALSE,
      swatchdog     |-> FALSE,
      lost          |-> FALSE,
      readers       |-> 0,
      watchdogs     |-> 0,
      jsonCat       |-> None,
      materials     |-> <<>>,
      swaps         |-> <<>>,
      servoMaps     |-> <<>>,
      feedStates    |-> <<>>,
      tcCount       |-> 0,
      tcStartTime   |-> 0,
      durationTotal |-> 0,
      okTimer       |-> FALSE,
      tcTimer       |-> FALSE,
      tcState       |-> 0,
      initState     |-> 0,
      lastCmdSent   |-> None,
      lastCmdDone   |-> FALSE,
      loadState     |-> 0,
      wdTimeout     |-> WD_TIMEOUT * 2,
      \* the tool last handed to the host's change_tool (-2: none yet)
      hostTool      |-> -2,
      \* the arguments P and T of the last POST_TOOLCHANGE call, and the tool
      \* that was pending when it was made (empty: not called yet)
      postArgs      |-> <<>>,
      autoLoad      |-> TRUE,
      \* history: the requests written by _init_SMuFF and _async_init; and
      \* errDone, which is 1 once an "error:" line has resolved the tagged
      \* command, 2 once an "ok" has followed it, and 0 again when the next
      \* command is sent
      initLog       |-> <<>>,
      errDone       |-> 0 ]

(***************************************************************************)
(* Small setters and helpers                                               *)
(***************************************************************************)
\* _set_response: the response handed to the waiter; the buffer is emptied
SetResponse(self, response) ==
    [self EXCEPT !.response = IF response # None THEN RStrip(response, {"\n"}) ELSE "",
                 !.lastResponse = <<>>]

\* the first match of the pattern [-\d]+ in text, "" when there is none
RECURSIVE FirstNumberRun(_)
FirstNumberRun(text) ==
    IF Len(text) = 0 THEN ""
    ELSE IF Char(text, 1) \in Digits \cup {"-"} THEN Span(text, Digits \cup {"-"})
    ELSE FirstNumberRun(From(text, 1))

\* _parse_tool_number: the number in "Tn", -1 when there is none or int() fails
ParseToolNumber(tool) ==
    LET run == FirstNumberRun(tool)
    IN  IF tool = "" THEN -1
        ELSE IF IsInt(run) THEN IntOf(run)
        ELSE -1

\* _send_SMuFF: resets the busy and error flags, tags the command when no
\* command is tagged, and writes the line when the port is open
SendSMuFF(self, data) ==
    LET s1 == [self EXCEPT !.isBusy = FALSE, !.isError = FALSE, !.errDone = 0]
        s2 == IF s1.lastCmdSent = None
              THEN [s1 EXCEPT !.lastCmdSent = FirstElement(data)]
              ELSE s1
    IN  IF s2.serial
        THEN [s2 EXCEPT !.written = Append(@, data \o "\n")]
        ELSE s2

\* _send_SMuFF when the write raises OSError or SerialException: the flags are
\* reset and the command is tagged, nothing is written, False is returned
SendSMuFFRaises(self, data) ==
    LET s1 == [self EXCEPT !.isBusy = FALSE, !.isError = FALSE, !.errDone = 0]
    IN  IF s1.lastCmdSent = None
        THEN [s1 EXCEPT !.lastCmdSent = FirstElement(data)]
        ELSE s1

\* the value _send_SMuFF returns
SendResult(self) == self.serial

\* _init_SMuFF: turn on the periodic states
InitSMuFF(self) ==
    LET s == SendSMuFF(self, PERSTATE \o OPT_ON)
    IN  IF SendResult(self) THEN [s EXCEPT !.initLog = Append(@, PERSTATE \o OPT_ON)] ELSE s

\* the request _async_init makes in each state
InitRequest(state) ==
    CASE state = 1 -> GETCONFIG(CFG_BASIC)
      [] state = 2 -> GETCONFIG(CFG_MATERIALS)
      [] state = 3 -> FWINFO
      [] state = 4 -> GETCONFIG(CFG_SWAPS)
      [] state = 5 -> GETCONFIG(CFG_SERVOMAPS)

\* _async_init: called for every states line while _initState > 0
AsyncInit(self) ==
    IF self.initState \in 1..5
    THEN IF self.isProcessing = FALSE
         THEN LET s == SendSMuFF(self, InitRequest(self.initState))
              IN  IF SendResult(self)
                  THEN [s EXCEPT !.initLog = Append(@, InitRequest(self.initState))]
                  ELSE s
         ELSE self
    ELSE [self EXCEPT !.initState = 0]

(***************************************************************************)
(* _parse_states: the periodic states line,                                *)
(*   echo: states: T: T4  S: off  R: off  F: off  F2: off  ...  SPL: 0     *)
(* re.findall yields (key, value) pairs; the line is read here word by     *)
(* word: a key is one to three capitals followed by digits, "|" or ":",    *)
(* and its value is the next word.  The value group of the pattern is      *)
(* repeated, so what is captured is its last repetition: the part of the   *)
(* word from its last "+" or "-" on ("T-1" gives "-1", "-off" gives        *)
(* "-off").                                                                *)
(***************************************************************************)
Capitals == {"A", "B", "C", "D", "E", "F", "G", "H", "I", "J", "K", "L", "M",
             "N", "O", "P", "Q", "R", "S", "T", "U", "V", "W", "X", "Y", "Z"}

IsStateKey(w) ==
    LET caps == Span(w, Capitals)
        rest == From(w, Len(caps))
    IN  /\ Len(caps) \in 1..3
        /\ Len(rest) > 0
        /\ Span(rest, Digits \cup {"|", ":"}) = rest

RECURSIVE LastRepetition(_, _)
LastRepetition(w, i) ==
    IF i <= 1 THEN w
    ELSE IF Char(w, i) \in {"+", "-"} THEN From(w, i - 1)
    ELSE LastRepetition(w, i - 1)

StateValue(w) == LastRepetition(w, Len(w))

\* the load state the SPL: value gives (the four tests of the code in turn)
LoadStateOf(spl, old) ==
    LET l0 == IF spl = 0 THEN 0 ELSE old
        l1 == IF spl = 1 \/ spl = 16 THEN 1 ELSE l0
        l2 == IF spl = 2 \/ spl = 32 THEN 2 ELSE l1
    IN  IF spl = 64 THEN 3 ELSE l2

\* one (key, value) pair; ok is FALSE when int() raises
ApplyState(self, key, value) ==
    LET v == StripWs(value)
    IN  CASE key = "T:"   -> [ok |-> TRUE, s |-> [self EXCEPT !.curTool = v]]
          [] key = "S:"   -> [ok |-> TRUE, s |-> [self EXCEPT !.selector = (v = T_ON)]]
          [] key = "R:"   -> [ok |-> TRUE, s |-> [self EXCEPT !.revolver = (v = T_ON)]]
          [] key = "F:"   -> [ok |-> TRUE, s |-> [self EXCEPT !.feeder = (v = T_ON)]]
          [] key = "F2:"  -> [ok |-> TRUE, s |-> [self EXCEPT !.feeder2 = (v = T_ON)]]
          [] key = "SD:"  -> [ok |-> TRUE, s |-> [self EXCEPT !.sdcard = (v = T_ON)]]
          [] key = "SC:"  -> [ok |-> TRUE, s |-> [self EXCEPT !.cfgChange = (v = T_ON)]]
          [] key = "LID:" -> [ok |-> TRUE, s |-> [self EXCEPT !.lid = (v = T_ON)]]
          [] key = "I:"   -> [ok |-> TRUE, s |-> [self EXCEPT !.isIdle = (v = T_ON)]]
          [] key = "SPL:" ->
                IF ~IsInt(v) THEN [ok |-> FALSE, s |-> self]
                ELSE IF self.curTool = "-1"
                THEN [ok |-> TRUE, s |-> [self EXCEPT !.loadState = -1]]
                ELSE [ok |-> TRUE,
                      s |-> [self EXCEPT !.loadState = LoadStateOf(IntOf(v), @)]]
          [] OTHER -> [ok |-> TRUE, s |-> self]

RECURSIVE StatePairs(_, _, _)
StatePairs(self, w, i) ==
    IF i >= Len(w) THEN [ok |-> TRUE, s |-> self]
    ELSE IF IsStateKey(w[i])
    THEN LET r == ApplyState(self, w[i], StateValue(w[i + 1]))
         IN  IF r.ok THEN StatePairs(r.s, w, i + 2) ELSE r
    ELSE StatePairs(self, w, i + 1)

\* _parse_states; an exception of int() leaves the method (the reader thread
\* catches it) before the watchdog event and the init step
ParseStates(self, states) ==
    IF Len(states) = 0 THEN self
    ELSE LET r == StatePairs(self, Words(states), 1)
             s == [r.s EXCEPT !.serWdEvent = TRUE]
         IN  IF ~r.ok THEN r.s
             ELSE IF s.initState > 0 THEN AsyncInit(s)
             ELSE s

(***************************************************************************)
(* _parse_json.  json.loads is a table over the payload lines the device   *)
(* sends: JsonLoads(data) is the decoded object, a function from keys to   *)
(* values, or JsonError when the text is no JSON.                          *)
(***************************************************************************)
JsonError == "<JSONDecodeError>"

JsonBasic == "{\"Device\":\"SMuFF\",\"Tools\":2,\"UseCutter\":true,\"UseSplitter\":false,\"UseDDE\":false}\n"
JsonMaterials == "{\"T0\":{\"Material\":\"PLA\",\"Color\":\"Red\",\"PFactor\":110},\"T1\":{\"Material\":\"PETG\",\"Color\":\"Blue\",\"PFactor\":120}}\n"
JsonMaterialsShort == "{\"T0\":{\"Material\":\"ABS\",\"Color\":\"Black\",\"PFactor\":100}}\n"
JsonSwaps == "{\"T0\":1,\"T1\":0}\n"
JsonServoMaps == "{\"T0\":{\"Close\":90},\"T1\":{\"Close\":95}}\n"
JsonFeedState == "{\"T0\":0,\"T1\":2}\n"
JsonBroken == "{\"T0\":\n"

\* decoded JSON values carry their type
JObject(f) == [t |-> "object", v |-> f]
JNumber(n) == [t |-> "number", v |-> n]
JString(x) == [t |-> "string", v |-> x]
JBool(b) == [t |-> "bool", v |-> b]

JMaterial(m, c, p) ==
    JObject([Material |-> JString(m), Color |-> JString(c), PFactor |-> JNumber(p)])

JsonLoads(data) ==
    CASE data = JsonBasic ->
            JObject([Device |-> JString("SMuFF"), Tools |-> JNumber(2),
                     UseCutter |-> JBool(TRUE), UseSplitter |-> JBool(FALSE),
                     UseDDE |-> JBool(FALSE)])
      [] data = JsonMaterials ->
            JObject([T0 |-> JMaterial("PLA", "Red", 110),
                     T1 |-> JMaterial("PETG", "Blue", 120)])
      [] data = JsonMaterialsShort ->
            JObject([T0 |-> JMaterial("ABS", "Black", 100)])
      [] data = JsonSwaps -> JObject([T0 |-> JNumber(1), T1 |-> JNumber(0)])
      [] data = JsonServoMaps ->
            JObject([T0 |-> JObject([Close |-> JNumber(90)]),
                     T1 |-> JObject([Close |-> JNumber(95)])])
      [] data = JsonFeedState -> JObject([T0 |-> JNumber(0), T1 |-> JNumber(2)])
      [] OTHER -> [t |-> JsonError]

\* obj[key] exists (no KeyError, no TypeError)
HasKey(obj, key) == obj.t = "object" /\ key \in DOMAIN obj.v

\* the entry a category takes from cfg[t]; ok is FALSE on an exception
TableEntry(cfg, t, category) ==
    IF ~HasKey(cfg, t) THEN [ok |-> FALSE]
    ELSE LET e == cfg.v[t]
         IN  IF category = C_MATERIALS
             THEN IF \A k \in {"Material", "Color", "PFactor"} : HasKey(e, k)
                  THEN [ok |-> TRUE,
                        v |-> <<e.v["Material"].v, e.v["Color"].v, e.v["PFactor"].v>>]
                  ELSE [ok |-> FALSE]
             ELSE IF category = C_SERVOMAPS
             THEN IF HasKey(e, "Close")
                  THEN [ok |-> TRUE, v |-> e.v["Close"].v]
                  ELSE [ok |-> FALSE]
             ELSE [ok |-> TRUE, v |-> e.v]

\* the loop "for i in range(self._toolCount)" over a table that was emptied
\* before it: an exception ends the loop and keeps what was appended
RECURSIVE BuildTable(_, _, _, _, _)
BuildTable(cfg, category, i, n, acc) ==
    IF i >= n THEN acc
    ELSE LET e == TableEntry(cfg, TOOL \o ToString(i), category)
         IN  IF e.ok THEN BuildTable(cfg, category, i + 1, n, Append(acc, e.v))
             ELSE acc

\* the assignments of the basic category, in order, up to the first KeyError
RECURSIVE AssignBasic(_, _, _)
AssignBasic(self, cfg, keys) ==
    IF keys = <<>> \/ ~HasKey(cfg, Head(keys)) THEN self
    ELSE LET k == Head(keys)
             x == cfg.v[k].v
             s == CASE k = "Device" -> [self EXCEPT !.device = x]
                    [] k = "Tools" -> [self EXCEPT !.toolCount = x]
                    [] k = "UseCutter" -> [self EXCEPT !.hasCutter = x]
                    [] k = "UseSplitter" -> [self EXCEPT !.hasSplitter = x]
                    [] k = "UseDDE" -> [self EXCEPT !.isDDE = x]
         IN  AssignBasic(s, cfg, Tail(keys))

ParseBasic(self, cfg) ==
    AssignBasic(self, cfg, <<"Device", "Tools", "UseCutter", "UseSplitter", "UseDDE">>)

\* faulty variant of _parse_json: a payload without a category is taken for
\* the tool swaps
ParseJsonUncategorized(self, data, category) ==
    IF data = "" THEN self
    ELSE LET cfg == JsonLoads(data)
         IN  IF cfg.t = JsonError THEN self
             ELSE IF category = C_BASIC THEN ParseBasic(self, cfg)
             ELSE IF category = C_MATERIALS
             THEN [self EXCEPT !.materials = BuildTable(cfg, category, 0, self.toolCount, <<>>)]
             ELSE IF category = C_SWAPS \/ category = None
             THEN [self EXCEPT !.swaps = BuildTable(cfg, C_SWAPS, 0, self.toolCount, <<>>)]
             ELSE IF category = C_SERVOMAPS
             THEN [self EXCEPT !.servoMaps = BuildTable(cfg, category, 0, self.toolCount, <<>>)]
             ELSE IF category = C_FEEDSTATE
             THEN [self EXCEPT !.feedStates = BuildTable(cfg, category, 0, self.toolCount, <<>>)]
             ELSE self

\* _parse_json
ParseJson(self, data, category) ==
    IF category = None \/ data = "" THEN self
    ELSE LET cfg == JsonLoads(data)
         IN  IF cfg.t = JsonError THEN self
             ELSE IF category = C_BASIC THEN ParseBasic(self, cfg)
             ELSE IF category = C_MATERIALS
             THEN [self EXCEPT !.materials = BuildTable(cfg, category, 0, self.toolCount, <<>>)]
             ELSE IF category = C_SWAPS
             THEN [self EXCEPT !.swaps = BuildTable(cfg, category, 0, self.toolCount, <<>>)]
             ELSE IF category = C_SERVOMAPS
             THEN [self EXCEPT !.servoMaps = BuildTable(cfg, category, 0, self.toolCount, <<>>)]
             ELSE IF category = C_FEEDSTATE
             THEN [self EXCEPT !.feedStates = BuildTable(cfg, category, 0, self.toolCount, <<>>)]
             ELSE self

(***************************************************************************)
(* _parse_serial_data: one line from the device.  printing is what         *)
(* _is_printing answers and extrude what heater.extruder.can_extrude       *)
(* gives ("yes", "no", or "raise" when the query throws).                  *)
(***************************************************************************)
LowerChar(c) ==
    CASE c = "A" -> "a" [] c = "B" -> "b" [] c = "C" -> "c" [] c = "D" -> "d"
      [] c = "E" -> "e" [] c = "F" -> "f" [] c = "G" -> "g" [] c = "H" -> "h"
      [] c = "I" -> "i" [] c = "J" -> "j" [] c = "K" -> "k" [] c = "L" -> "l"
      [] c = "M" -> "m" [] c = "N" -> "n" [] c = "O" -> "o" [] c = "P" -> "p"
      [] c = "Q" -> "q" [] c = "R" -> "r" [] c = "S" -> "s" [] c = "T" -> "t"
      [] c = "U" -> "u" [] c = "V" -> "v" [] c = "W" -> "w" [] c = "X" -> "x"
      [] c = "Y" -> "y" [] c = "Z" -> "z" [] OTHER -> c

RECURSIVE Lower(_)
Lower(s) == IF Len(s) = 0 THEN "" ELSE LowerChar(Char(s, 1)) \o Lower(From(s, 1))

\* str.strip(" ")
StripBlanks(s) == LStrip(RStrip(s, {" "}), {" "})

\* the category named by a "/* category */" line
JsonCategory(data) == Lower(StripBlanks(RStrip(From(data, 2), {"*", "/", "\n"})))

\* the remote tool change request "//action:T<n>"
ActionTool(self, data, printing, extrude) ==
    LET tool == ParseToolNumber(From(data, 10))
    IN  IF printing
        THEN IF extrude = "yes"
             THEN SendSMuFF([self EXCEPT !.hostTool = tool], ACTION_CMD \o " T: OK")
             ELSE IF extrude = "no"
             THEN SendSMuFF(self, ACTION_CMD \o " T: \"Nozzle too cold\"")
             ELSE SendSMuFF(self, ACTION_CMD \o " T: \"No nozzle temp. avail.\"")
        ELSE SendSMuFF(self, ACTION_CMD \o " T: \"Printer not ready\"")

\* the four tests that follow the tool request, each on the same text
ActionFlags(self, rest) ==
    LET s1 == IF StartsWith(rest, ACTION_WAIT)
              THEN [self EXCEPT !.waitRequested = TRUE] ELSE self
        s2 == IF StartsWith(rest, ACTION_CONTINUE)
              THEN [s1 EXCEPT !.waitRequested = FALSE, !.abortRequested = FALSE] ELSE s1
    IN  IF StartsWith(rest, ACTION_ABORT)
        THEN [s2 EXCEPT !.waitRequested = FALSE, !.abortRequested = TRUE]
        ELSE s2

\* the "ok" terminator
ParseOk(self) ==
    LET firstResponse == IF Len(self.lastResponse) > 0
                         THEN RStrip(self.lastResponse[1], {"\n"})
                         ELSE None
        done == IF self.lastCmdSent = ANY THEN TRUE
                ELSE IF firstResponse # None /\ firstResponse = self.lastCmdSent THEN TRUE
                ELSE self.lastCmdDone
        s == IF self.isError
             THEN [SetResponse(self, None) EXCEPT !.lastCmdSent = None, !.lastCmdDone = TRUE]
             ELSE SetResponse([self EXCEPT !.lastCmdDone = done], Join(self.lastResponse))
    IN  [s EXCEPT !.lastCmdSent = None, !.serEvent = TRUE,
                  !.errDone = IF @ > 0 THEN 2 ELSE 0]

\* faulty variant of the "error:" line: the tagged command is not marked done
ParseErrorFlagOnly(self) ==
    LET s == [self EXCEPT !.isError = TRUE]
    IN  IF s.lastCmdSent # None
        THEN [s EXCEPT !.lastCmdSent = None, !.errDone = 1]
        ELSE s

\* faulty variant of the "error:" line: the event of the caller is set
ParseErrorReleases(self) ==
    LET s == [self EXCEPT !.isError = TRUE, !.serEvent = TRUE]
    IN  IF s.lastCmdSent # None
        THEN [s EXCEPT !.lastCmdSent = None, !.lastCmdDone = TRUE, !.errDone = 1]
        ELSE s

\* the "error:" line
ParseError(self) ==
    LET s == [self EXCEPT !.isError = TRUE]
    IN  IF s.lastCmdSent # None
        THEN [s EXCEPT !.lastCmdSent = None, !.lastCmdDone = TRUE, !.errDone = 1]
        ELSE s

\* faulty variant of the "echo:" lines: a busy line sets the event of the caller
ParseEchoBusyReleases(self, data) ==
    LET rest == From(data, Len(R_ECHO) + 1)
    IN  IF StartsWith(rest, R_DEBUG) THEN self
        ELSE IF StartsWith(rest, R_STATES) THEN ParseStates(self, RStripWs(data))
        ELSE IF StartsWith(rest, R_BUSY) THEN [self EXCEPT !.isBusy = TRUE, !.serEvent = TRUE]
        ELSE self

\* the "echo:" lines
ParseEcho(self, data) ==
    LET rest == From(data, Len(R_ECHO) + 1)
    IN  IF StartsWith(rest, R_DEBUG) THEN self
        ELSE IF StartsWith(rest, R_STATES) THEN ParseStates(self, RStripWs(data))
        ELSE IF StartsWith(rest, R_BUSY) THEN [self EXCEPT !.isBusy = TRUE]
        ELSE self

ParseSerialData(self, data, printing, extrude) ==
    IF Len(data) = 0 \/ data = "\n" THEN self
    ELSE LET s == [self EXCEPT !.serEvent = FALSE]
         IN  IF StartsWith(data, R_START)
             THEN InitSMuFF([s EXCEPT !.serEvent = TRUE])
             ELSE IF StartsWith(data, PERSTATE)
             THEN [s EXCEPT !.initState = 1]
             ELSE IF StartsWith(data, R_ECHO)
             THEN ParseEcho(s, data)
             ELSE IF StartsWith(data, R_ERROR)
             THEN ParseError(s)
             ELSE IF StartsWith(data, ACTION_CMD)
             THEN LET rest == From(data, Len(ACTION_CMD))
                      t == IF StartsWith(rest, TOOL)
                           THEN ActionTool(s, data, printing, extrude)
                           ELSE s
                  IN  ActionFlags(t, rest)
             ELSE IF StartsWith(data, R_JSONCAT)
             THEN [s EXCEPT !.jsonCat = JsonCategory(data)]
             ELSE IF StartsWith(data, R_JSON)
             THEN [ParseJson(s, data, s.jsonCat) EXCEPT !.jsonCat = None,
                                                       !.initState = @ + 1]
             ELSE IF StartsWith(data, R_FWINFO)
             THEN [s EXCEPT !.fwInfo = RStrip(data, {"\n"}),
                            !.lastCmdSent = None,
                            !.initState = @ + 1]
             ELSE IF StartsWith(data, R_OK)
             THEN ParseOk(s)
             ELSE [s EXCEPT !.lastResponse = Append(@, data)]

(***************************************************************************)
(* Connection life cycle                                                   *)
(***************************************************************************)
\* _open_serial: openable is whether serial.Serial() succeeds; the reader and
\* the watchdog threads are started on an open port
OpenSerial(self, openable) ==
    IF openable
    THEN [self EXCEPT !.serial = TRUE, !.lost = FALSE, !.stopSerial = FALSE,
                      !.sreader = TRUE, !.swatchdog = TRUE,
                      !.readers = @ + 1, !.watchdogs = @ + 1]
    ELSE self

\* _connect_SMuFF
ConnectSMuFF(self, openable) ==
    LET s == OpenSerial([self EXCEPT !.isConnected = FALSE], openable)
    IN  IF s.serial
        THEN InitSMuFF([s EXCEPT !.isConnected = TRUE])
        ELSE s

\* faulty variant of _close_serial: no early return on a port that is not open
CloseSerialNoGuard(self) ==
    [self EXCEPT !.stopSerial = TRUE, !.serWdEvent = TRUE,
                 !.sreader = FALSE, !.sconnector = FALSE, !.swatchdog = FALSE,
                 !.readers = 0, !.watchdogs = 0, !.lost = FALSE,
                 !.serial = FALSE, !.isConnected = FALSE]

\* _close_serial: stops and joins the threads, closes the port
CloseSerial(self) ==
    IF ~self.serial /\ ~self.lost THEN self
    ELSE [self EXCEPT !.stopSerial = TRUE, !.serWdEvent = TRUE,
                      !.sreader = FALSE, !.sconnector = FALSE, !.swatchdog = FALSE,
                      !.readers = 0, !.watchdogs = 0, !.lost = FALSE,
                      !.serial = FALSE, !.isConnected = FALSE]

\* _serial_reader, one round of its loop with nothing to read: the loop ends
\* on the stop flag, and on a port that is not open after setting _serEvent
SerialReader(self) ==
    IF self.stopSerial THEN [self EXCEPT !.readers = @ - 1]
    ELSE IF self.serial THEN self
    ELSE [self EXCEPT !.serEvent = TRUE, !.readers = @ - 1]

\* _serial_watchdog, one round of its loop: it ends on the stop flag and on
\* a port that is not open; otherwise it clears _serWdEvent and waits, and a
\* wait that times out is logged
SerialWatchdog(self) ==
    IF self.stopSerial \/ ~self.serial THEN [self EXCEPT !.watchdogs = @ - 1]
    ELSE [self EXCEPT !.serWdEvent = FALSE]

\* cmd_connect (SMUFF_CONN)
CmdConnect(self, openable) ==
    IF self.isConnected THEN self ELSE ConnectSMuFF(self, openable)

\* cmd_disconnect (SMUFF_DISC)
CmdDisconnect(self) == [CloseSerial(self) EXCEPT !.serial = FALSE, !.lost = FALSE]

\* cmd_reset_avg (SMUFF_RESET_AVG)
CmdResetAvg(self) == [self EXCEPT !.tcCount = 0, !.durationTotal = 0]

\* cmd_materials, cmd_swaps and cmd_lidmappings (SMUFF_MATERIALS,
\* SMUFF_SWAPS, SMUFF_LIDMAPPINGS): the query is written without waiting
CmdMaterials(self) ==
    IF ~self.isConnected THEN self ELSE SendSMuFF(self, GETCONFIG(CFG_MATERIALS))

CmdSwaps(self) ==
    IF ~self.isConnected THEN self ELSE SendSMuFF(self, GETCONFIG(CFG_SWAPS))

CmdLidMappings(self) ==
    IF ~self.isConnected THEN self ELSE SendSMuFF(self, GETCONFIG(CFG_SERVOMAPS))

\* whether cmd_load and cmd_unload (SMUFF_LOAD, SMUFF_UNLOAD) send: connected,
\* no ok-wait timer registered, a tool selected
CmdLoadSends(self) ==
    self.isConnected /\ ~self.okTimer /\ ParseToolNumber(self.curTool) # -1

\* cmd_load and cmd_unload up to the write: the command is tagged and sent
CmdLoadSend(self, cmd) == SendSMuFF([self EXCEPT !.lastCmdSent = cmd], cmd)

\* cmd_load and cmd_unload after the write: the command is marked not done
\* and the ok-wait timer is registered
CmdLoadArm(self) == [self EXCEPT !.lastCmdDone = FALSE, !.okTimer = TRUE]

\* _wait_for_ok, the callback of the ok-wait timer: it discards the timer
\* when the command is done and calls again in two seconds otherwise
WaitForOk(self) ==
    IF self.lastCmdDone THEN [self EXCEPT !.okTimer = FALSE] ELSE self

\* cmd_cut (SMUFF_CUT): the cut command is written without waiting
CmdCut(self) == IF ~self.isConnected THEN self ELSE SendSMuFF(self, CUT)

\* faulty variant of the handlers below: the command is sent, connected or not
CmdSendUnguarded(self, cmd) == SendSMuFF(self, cmd)

\* cmd_wipe, cmd_lid_open, cmd_lid_close, cmd_home, cmd_motors_off,
\* cmd_clear_jam and cmd_reset: on a connected instance the command of the
\* handler is written without waiting
CmdSend(self, cmd) == IF ~self.isConnected THEN self ELSE SendSMuFF(self, cmd)

\* cmd_servo_pos (SMUFF_SET_SERVO)
CmdServoPos(self, servo, pos) ==
    IF ~self.isConnected THEN self
    ELSE IF pos < 0 \/ pos > 180 THEN self
    ELSE SendSMuFF(self, SETSERVO(servo, pos))

\* whether cmd_param (SMUFF_PARAM) goes on to _send_SMuFF_and_wait
CmdParamWaits(self, param, paramVal) ==
    self.isConnected /\ param # "" /\ paramVal # ""

(***************************************************************************)
(* Tool change                                                             *)
(***************************************************************************)
\* faulty variant of cmd_tool_change: the tool already selected is changed to
CmdToolChangeNoSkip(self, t) ==
    IF ~self.isConnected THEN self
    ELSE IF self.tcTimer THEN self
    ELSE LET s == [self EXCEPT !.activeTool = ParseToolNumber(self.curTool),
                               !.pendingTool = t]
         IN  IF s.pendingTool = -1 THEN s
             ELSE IF s.pendingTool > s.toolCount THEN [s EXCEPT !.pendingTool = -1]
             ELSE [s EXCEPT !.tcState = 1, !.tcTimer = TRUE]

\* faulty variant of cmd_tool_change: the tool number is not validated
CmdToolChangeNoCheck(self, t) ==
    IF ~self.isConnected THEN self
    ELSE IF self.tcTimer THEN self
    ELSE LET s == [self EXCEPT !.activeTool = ParseToolNumber(self.curTool),
                               !.pendingTool = t]
         IN  IF s.pendingTool = -1 THEN s
             ELSE IF s.activeTool = s.pendingTool THEN s
             ELSE [s EXCEPT !.tcState = 1, !.tcTimer = TRUE]

\* faulty variant of cmd_tool_change: a session under way is not looked at
\* before the tools are taken
CmdToolChangeNoBusy(self, t) ==
    IF ~self.isConnected THEN self
    ELSE LET s == [self EXCEPT !.activeTool = ParseToolNumber(self.curTool),
                               !.pendingTool = t]
         IN  IF s.pendingTool = -1 THEN s
             ELSE IF s.pendingTool > s.toolCount THEN [s EXCEPT !.pendingTool = -1]
             ELSE IF s.activeTool = s.pendingTool THEN s
             ELSE IF ~s.tcTimer THEN [s EXCEPT !.tcState = 1, !.tcTimer = TRUE]
             ELSE s

\* cmd_tool_change (SMUFF_TOOL_CHANGE); t is the T= (or TOOL=) parameter, -1
\* when neither is given
CmdToolChange(self, t) ==
    IF ~self.isConnected THEN self
    ELSE IF self.tcTimer THEN self
    ELSE LET s == [self EXCEPT !.activeTool = ParseToolNumber(self.curTool),
                               !.pendingTool = t]
         IN  IF s.pendingTool = -1 THEN s
             ELSE IF s.pendingTool > s.toolCount THEN [s EXCEPT !.pendingTool = -1]
             ELSE IF s.activeTool = s.pendingTool THEN s
             ELSE [s EXCEPT !.tcState = 1, !.tcTimer = TRUE]

\* state 1 of _tool_change: count, start time, PRE_TOOLCHANGE when printing
ToolChangePre(self, clock, printing, preFails) ==
    LET s == [self EXCEPT !.tcCount = @ + 1, !.tcStartTime = clock,
                          !.preTool = self.curTool]
    IN  IF printing
        THEN IF preFails THEN [s EXCEPT !.tcState = 0] ELSE [s EXCEPT !.tcState = 2]
        ELSE [s EXCEPT !.tcState = 2]

\* state 2: tag and send the tool select command
ToolChangeSend(self) ==
    LET s == [self EXCEPT !.lastCmdDone = FALSE,
                          !.lastCmdSent = TOOL \o ToString(self.pendingTool)]
        d == s.lastCmdSent \o (IF self.autoLoad THEN AUTOLOAD ELSE "")
    IN  [SendSMuFF(s, d) EXCEPT !.tcState = 3]

\* faulty variant of state 3: the timeout goes on with the feed state query
ToolChangeAwaitResumes(self, clock) ==
    IF self.lastCmdDone
    THEN IF self.isError THEN [self EXCEPT !.tcState = 6]
         ELSE [self EXCEPT !.tcState = 4]
    ELSE IF clock - self.tcStartTime > TcTimeout
    THEN [self EXCEPT !.tcState = 4]
    ELSE self

\* state 3: poll for the response, time out after the tool change timeout
ToolChangeAwait(self, clock) ==
    IF self.lastCmdDone
    THEN IF self.isError THEN [self EXCEPT !.tcState = 6]
         ELSE [self EXCEPT !.tcState = 4]
    ELSE IF clock - self.tcStartTime > TcTimeout
    THEN [self EXCEPT !.tcState = 6]
    ELSE self

\* faulty variant of state 4: the macro state is skipped
ToolChangeFeedStateSkips(self) ==
    LET s == [self EXCEPT !.lastCmdSent = GETCONFIG(CFG_FEEDSTATE)]
    IN  [SendSMuFF(s, s.lastCmdSent) EXCEPT !.tcState = 6]

\* state 4: query the feed states
ToolChangeFeedState(self) ==
    LET s == [self EXCEPT !.lastCmdSent = GETCONFIG(CFG_FEEDSTATE)]
    IN  [SendSMuFF(s, s.lastCmdSent) EXCEPT !.tcState = 5]

\* state 5: POST_TOOLCHANGE when the print is paused; a failing macro is logged
ToolChangePost(self, paused, postFails) ==
    IF paused
    THEN [self EXCEPT !.tcState = 6,
                      !.postArgs = << ParseToolNumber(self.preTool), self.activeTool,
                                      self.pendingTool >>]
    ELSE [self EXCEPT !.tcState = 6]

\* state 6: the duration; the average in the log line divides by _tcCount,
\* and the ZeroDivisionError leaves the state as it is
ToolChangeFinal(self, clock) ==
    LET s == [self EXCEPT !.durationTotal = @ + (clock - self.tcStartTime)]
    IN  IF s.tcCount = 0 THEN s ELSE [s EXCEPT !.tcState = 0]

\* any other state: the timer is discarded
ToolChangeEnd(self) == [self EXCEPT !.tcTimer = FALSE]

\* _tool_change, one call of the reactor timer
ToolChange(self, clock, printing, paused, preFails, postFails) ==
    CASE self.tcState = 1 -> ToolChangePre(self, clock, printing, preFails)
      [] self.tcState = 2 -> ToolChangeSend(self)
      [] self.tcState = 3 -> ToolChangeAwait(self, clock)
      [] self.tcState = 4 -> ToolChangeFeedState(self)
      [] self.tcState = 5 -> ToolChangePost(self, paused, postFails)
      [] self.tcState = 6 -> ToolChangeFinal(self, clock)
      [] OTHER -> ToolChangeEnd(self)

(***************************************************************************)
(* _send_SMuFF_and_wait, in the steps at which the reader thread can run   *)
(* in between: the write, _set_processing(True), _serEvent.clear(), the    *)
(* entry into _serEvent.wait(timeout), and the wake-up.                    *)
(***************************************************************************)
\* faulty variant of the timeout: the command timeout for every command
WaitTimeoutCommand(data) == CmdTimeout

\* the timeout the call waits with
WaitTimeout(data) == IF StartsWith(data, TOOL) THEN TcTimeout ELSE CmdTimeout

\* whether the loop ends after a wake-up; is_set is what wait() returned
WaitDone(self, is_set) ==
    IF is_set
    THEN self.response = None \/ self.isError \/ ~StartsWith(self.response, R_ECHO)
    ELSE self.isBusy = FALSE

\* _set_processing
SetProcessing(self, processing) == [self EXCEPT !.isProcessing = processing]

\* the instance after a wake-up
WaitWake(self, is_set) ==
    LET s == IF is_set THEN [self EXCEPT !.response = None]
             ELSE IF self.isBusy = FALSE THEN SetProcessing(self, FALSE)
             ELSE self
    IN  IF WaitDone(self, is_set)
        THEN [SetProcessing(s, FALSE) EXCEPT !.wdTimeout = WD_TIMEOUT]
        ELSE s

\* str.upper
UpperChar(c) ==
    CASE c = "a" -> "A" [] c = "b" -> "B" [] c = "c" -> "C" [] c = "d" -> "D"
      [] c = "e" -> "E" [] c = "f" -> "F" [] c = "g" -> "G" [] c = "h" -> "H"
      [] c = "i" -> "I" [] c = "j" -> "J" [] c = "k" -> "K" [] c = "l" -> "L"
      [] c = "m" -> "M" [] c = "n" -> "N" [] c = "o" -> "O" [] c = "p" -> "P"
      [] c = "q" -> "Q" [] c = "r" -> "R" [] c = "s" -> "S" [] c = "t" -> "T"
      [] c = "u" -> "U" [] c = "v" -> "V" [] c = "w" -> "W" [] c = "x" -> "X"
      [] c = "y" -> "Y" [] c = "z" -> "Z" [] OTHER -> c

RECURSIVE Upper(_)
Upper(s) == IF Len(s) = 0 THEN "" ELSE UpperChar(Char(s, 1)) \o Upper(From(s, 1))

\* cmd_gcode (SMUFF_SEND) up to the call of _send_SMuFF_and_wait: the reset
\* command is sent without waiting
CmdGcodeReset(self, gcode) ==
    SendSMuFF([self EXCEPT !.serWdEvent = TRUE, !.wdTimeout = WD_TIMEOUT * 2], gcode)

\* whether cmd_gcode goes on to _send_SMuFF_and_wait
CmdGcodeWaits(self, gcode) ==
    self.isConnected /\ gcode # "" /\ Upper(gcode) # RESET

\* faulty variant of _reconnect_SMuFF: no guard against a running connector
ReconnectSMuFFUnguarded(self, openable) ==
    LET s1 == [CloseSerial(self) EXCEPT !.isReconnect = TRUE, !.initLog = <<>>]
        s2 == [ConnectSMuFF(s1, openable) EXCEPT !.isReconnect = FALSE]
    IN  IF s2.isConnected = FALSE
        THEN [s2 EXCEPT !.sconnector = TRUE]
        ELSE s2

\* _reconnect_SMuFF up to the firmware probe
ReconnectSMuFF(self, openable) ==
    IF self.sconnector THEN self
    ELSE LET s1 == [CloseSerial(self) EXCEPT !.isReconnect = TRUE, !.initLog = <<>>]
             s2 == [ConnectSMuFF(s1, openable) EXCEPT !.isReconnect = FALSE]
         IN  IF s2.isConnected = FALSE
             THEN [s2 EXCEPT !.sconnector = TRUE]
             ELSE s2

\* whether _reconnect_SMuFF goes on to _send_SMuFF_and_wait(FWINFO)
ReconnectProbes(self) == ~self.sconnector

\* what cmd_connect returns, s2 being the instance it leaves: with
\* autoConnect it returns True right after _connect_SMuFF, connected or not
CmdConnectReturns(self, s2, autoConnect) ==
    IF self.isConnected THEN TRUE
    ELSE IF autoConnect THEN TRUE
    ELSE s2.isConnected

\* one round of the loop of _serial_connector, after its sleep: the thread
\* ends (and forgets itself) when the stop flag is set or cmd_connect
\* returned True, and goes round again otherwise
SerialConnector(self, openable) ==
    IF self.stopSerial THEN [self EXCEPT !.sconnector = FALSE]
    ELSE LET s == CmdConnect(self, openable)
         IN  IF CmdConnectReturns(self, s, TRUE)
             THEN [s EXCEPT !.sconnector = FALSE]
             ELSE s

\* event_disconnect (klippy:disconnect)
EventDisconnect(self) == IF self.serial \/ self.lost THEN CloseSerial(self) ELSE self

\* load_config: the instance as constructed, its connector started when
\* autoConnectSerial is set
LoadConfig(autoConnect) ==
    IF autoConnect THEN [SMuFF EXCEPT !.sconnector = TRUE] ELSE SMuFF

(***************************************************************************)
(* The state of the model                                                  *)
(***************************************************************************)
VARIABLES
    self,     \* the SMuFF instance
    main,     \* the reactor: where the running handler stands
    now,      \* the clock
    nLines,   \* lines received so far
    nCmds,    \* commands issued so far
    tc,       \* history of the tool change requests and of the session
    dev,      \* the device, where the model lets it answer what was written
    conn,     \* history of the last operation on the connection
    wrap      \* the two instance module of src/smuff.py (SCA, SCB, routing)

vars == <<self, main, now, nLines, nCmds, tc, dev, conn, wrap>>

\* the reactor between two handlers.  wrote .. errBlocked are history of the
\* current call of _send_SMuFF_and_wait: whether the command was written,
\* when the call and the wait began and when wait() returned last, how often
\* it timed out, the kinds
\* of lines the reader has processed since the write, whether an "ok" was
\* among them before any timeout, and whether an "error:" line and a busy
\* line were processed while the caller was blocked, and whether the port
\* was closed while the caller was blocked and not yet notified
\* (closed), and the watchdog timeout before the call (wd0)
MainIdle ==
    [ pc |-> "idle", fn |-> "", data |-> "", timeout |-> 0, result |-> None,
      deadline |-> 0, signaled |-> FALSE,
      wrote |-> FALSE, callTime |-> 0, waitStart |-> 0, wakeTime |-> 0,
      nTimeouts |-> 0,
      seen |-> {}, okEarly |-> FALSE, errBlocked |-> FALSE,
      busyBlocked |-> FALSE, closed |-> FALSE, wd0 |-> 0 ]

\* no tool change requested yet
NoSession ==
    [ said |-> "", phase |-> "none", trace |-> <<>>, count0 |-> 0,
      clean |-> TRUE, got |-> 0, macroFail |-> FALSE, wd0 |-> 0 ]

\* the lines of the device
StatesLine == "echo: states: T: T1\n"
ToolEcho == "T1\n"

\* what kind of line it is to the waiting caller
LineKind(l) ==
    IF StartsWith(l, R_OK) THEN "ok"
    ELSE IF StartsWith(l, R_START) THEN "start"
    ELSE IF StartsWith(l, R_ERROR) THEN "error"
    ELSE IF StartsWith(l, R_ECHO) /\ StartsWith(From(l, Len(R_ECHO) + 1), R_BUSY) THEN "busy"
    ELSE IF StartsWith(l, R_ECHO) /\ StartsWith(From(l, Len(R_ECHO) + 1), R_STATES) THEN "states"
    ELSE "other"

\* the device before it has taken any command: next is the position in
\* self.written of the command it answers next, pending the lines of the
\* answer it is sending, periodic whether it sends states lines, last the
\* tool and the SPL: value of the states line it reported last, failed the
\* positions of the commands whose "error:" line the reader has processed
\* and host what the host reported at the last "//action:T" request of the
\* device: printing, can_extrude, and the tool the host had before
DevIdle ==
    [ next |-> 1, pending |-> <<>>, periodic |-> FALSE, last |-> <<>>,
      failed |-> {}, host |-> <<>> ]

\* the GCodes the operator sends with SMUFF_SEND
Gcodes == { "M119", "T1" }

\* the dialogue of a complete initialisation
InitDialogue ==
    << "M155 S1\n", R_OK,
       StatesLine, "/* Basic */\n", JsonBasic, R_OK,
       StatesLine, "/* Materials */\n", JsonMaterials, R_OK,
       StatesLine, "FIRMWARE_NAME: SMuFF\n", R_OK,
       StatesLine, "/* Tool Swaps */\n", JsonSwaps, R_OK,
       StatesLine, "/* Servo Mapping */\n", JsonServoMaps, R_OK,
       StatesLine, "echo: states: T: T0\n" >>

\* the reader thread parses the lines one after the other while it runs
RECURSIVE Replay(_, _)
Replay(s, lines) ==
    IF lines = <<>> \/ ~s.sreader THEN s
    ELSE Replay(ParseSerialData(s, Head(lines), FALSE, "no"), Tail(lines))

\* a connected and initialised instance with tool 0 selected; the history of
\* what was written starts afresh
Ready ==
    [Replay(CmdConnect(SMuFF, TRUE), InitDialogue)
        EXCEPT !.written = <<>>, !.initLog = <<>>]

(***************************************************************************)
(* History of the tool change session                                      *)
(***************************************************************************)
\* what cmd_tool_change answers the operator
ToolChangeSays(s, t) ==
    IF ~s.isConnected THEN "T_NOT_CONN"
    ELSE IF s.tcTimer THEN "T_NOT_READY"
    ELSE IF t = -1 THEN "T_NO_PARAM"
    ELSE IF t > s.toolCount THEN "T_NO_SEL_TOOL"
    ELSE IF ParseToolNumber(s.curTool) = t THEN "T_SKIP_TOOL"
    ELSE ""

\* a request that registers the timer opens a session; wd0 is the watchdog
\* timeout at that moment
TcOnRequest(h, s, s2, t) ==
    IF ~s.tcTimer /\ s2.tcTimer
    THEN [ said |-> ToolChangeSays(s, t), phase |-> "run", trace |-> <<1>>,
           count0 |-> s.tcCount, clean |-> (s.lastResponse = <<>>),
           got |-> 0, macroFail |-> FALSE, wd0 |-> s.wdTimeout ]
    ELSE [h EXCEPT !.said = ToolChangeSays(s, t)]

\* a call of the timer: the stages entered, the macros that failed, the end
\* ("failed": state 6 has raised and left the state as it was)
TcOnTimer(h, s, s2, failed) ==
    IF h.phase # "run" THEN h
    ELSE [h EXCEPT !.trace = IF s2.tcState # s.tcState /\ s2.tcState # 0
                             THEN Append(@, s2.tcState) ELSE @,
                   !.macroFail = @ \/ failed,
                   !.phase = IF s.tcState = 6 /\ s2.tcState = 6 THEN "failed"
                             ELSE IF s2.tcTimer THEN "run" ELSE "done"]

\* a line while the session runs.  The session stays clean as long as, apart
\* from states lines, the device sends nothing before the tool select command
\* is written and answers it with its echo (got = 1) and then "ok" (got = 2)
\* while the state machine waits in state 3
TcOnLine(h, s, l) ==
    IF h.phase # "run" \/ LineKind(l) = "states" THEN h
    ELSE IF s.tcState \in {1, 2} THEN [h EXCEPT !.clean = FALSE]
    ELSE IF s.tcState = 3
    THEN IF h.got = 0 /\ l = TOOL \o ToString(s.pendingTool) \o "\n"
         THEN [h EXCEPT !.got = 1]
         ELSE IF h.got = 1 /\ l = R_OK
         THEN [h EXCEPT !.got = 2]
         ELSE [h EXCEPT !.clean = FALSE]
    ELSE h

(***************************************************************************)
(* The caller of _send_SMuFF_and_wait                                      *)
(***************************************************************************)
\* the reactor after the write of the call
WaitCall(s, fn, data, clock) ==
    [MainIdle EXCEPT !.pc = IF SendResult(s) THEN "sent" ELSE "return",
                     !.fn = fn, !.data = data, !.timeout = WaitTimeout(data),
                     !.wrote = SendResult(s), !.callTime = clock,
                     !.wakeTime = clock]

\* the reactor after wait() has returned is_set
WaitWoken(m, s, is_set, clock) ==
    [m EXCEPT !.pc = IF WaitDone(s, is_set) THEN "return" ELSE "clear",
              !.result = IF is_set THEN s.response ELSE @,
              !.nTimeouts = IF is_set THEN @ ELSE @ + 1,
              !.signaled = FALSE,
              !.wakeTime = clock]

\* the reactor after the reader has processed a line of kind k and left the
\* instance as s2
WaitOnLine(m, s2, k) ==
    IF m.pc = "idle" \/ m.pc = "return" THEN m
    ELSE [m EXCEPT !.signaled = (m.pc = "blocked") /\ (@ \/ s2.serEvent),
                   !.seen = @ \cup {k},
                   !.okEarly = @ \/ (k = "ok" /\ m.nTimeouts = 0),
                   !.errBlocked = @ \/ (k = "error" /\ m.pc = "blocked"),
                   !.busyBlocked = @ \/ (k = "busy" /\ m.pc = "blocked")]

(***************************************************************************)
(* The module for two devices (src/smuff.py): two cores SCA and SCB and    *)
(* the routing of every command to one of them.  The core (smuff_core) is  *)
(* not part of the sources; of each core the fields and methods the module *)
(* uses are kept: connect_SMuFF, close_serial, send_SMuFF and               *)
(* klipper_change_tool.                                                    *)
(***************************************************************************)
SmuffCore ==
    [ isConnected |-> FALSE, autoConnect |-> TRUE, dumpRawData |-> FALSE,
      written |-> <<>>, pendingTool |-> -1 ]

CoreConnect(c, openable) == [c EXCEPT !.isConnected = openable]
CoreClose(c) == [c EXCEPT !.isConnected = FALSE]
CoreSend(c, data) == [c EXCEPT !.written = Append(@, data)]
CoreChangeTool(c, t) == [c EXCEPT !.pendingTool = t]

\* SMuFF.__init__ of the module; op .. selected are history: the last
\* handler, its DEVICE parameter, the instance it was routed to ("" for a
\* handler that does no routing), the cores it changed, and the instance
\* the last SMUFF_INSTANCE selected
Wrapper(hasIDEX) ==
    [ SCA |-> SmuffCore, SCB |-> SmuffCore,
      activeInstance |-> "A", instance |-> "A", hasIDEX |-> hasIDEX,
      op |-> "none", device |-> "", routed |-> "", touched |-> {}, selected |-> "" ]

\* the DEVICE parameters of a command: absent, A, b, and one that is neither
Devices == {"", "A", "b", "X"}

\* get_instance; device is "none" for a call without gcmd and "" for a
\* command without DEVICE=
GetInstance(w, device) ==
    LET d  == IF device = "" THEN "A" ELSE Upper(device)
        w1 == IF device = "none" THEN [w EXCEPT !.activeInstance = "A"]
              ELSE IF d = "A" \/ d = "B" THEN [w EXCEPT !.activeInstance = d]
              ELSE w
    IN  [w1 EXCEPT !.instance = IF w1.activeInstance = "A" THEN "A" ELSE "B"]

\* self._instance
Instance(w) == IF w.instance = "A" THEN w.SCA ELSE w.SCB

\* faulty variant: whatever is done to self._instance is done to SCA
OnInstanceAlwaysA(w, c) == [w EXCEPT !.SCA = c]

\* a method of self._instance has left the core as c
OnInstance(w, c) ==
    IF w.instance = "A" THEN [w EXCEPT !.SCA = c] ELSE [w EXCEPT !.SCB = c]

\* the history of a handler that took w to w2
Handled(op, device, routed, w, w2) ==
    [w2 EXCEPT !.op = op, !.device = device, !.routed = routed,
               !.touched = (IF w2.SCA # w.SCA THEN {"A"} ELSE {}) \cup
                           (IF w2.SCB # w.SCB THEN {"B"} ELSE {})]

\* history of the connection: the last operation on it, whether it found the
\* port open and the connector thread running, and whether it left the
\* instance as it was
\* pc is where the connector thread stands in cmd_connect: "idle" before its
\* test of _isConnected, "open" once it has found the instance not connected
NoConn ==
    [op |-> "none", wasOpen |-> FALSE, wasConnecting |-> FALSE, same |-> TRUE,
     pc |-> "idle"]

ConnOp(op, s, s2) ==
    [op |-> op, wasOpen |-> s.serial, wasConnecting |-> s.sconnector, same |-> s2 = s,
     pc |-> conn.pc]

(***************************************************************************)
(* The operator's commands (GCode handlers, run by the reactor)            *)
(***************************************************************************)
Disconnect ==
    /\ main.pc = "idle" /\ nCmds < MaxCmds
    /\ self' = CmdDisconnect(self)
    /\ nCmds' = nCmds + 1
    /\ conn' = ConnOp("disconnect", self, self')
    /\ UNCHANGED <<wrap, dev, main, now, nLines, tc>>

ToolChangeRequest(t) ==
    /\ main.pc = "idle" /\ nCmds < MaxCmds
    /\ self' = CmdToolChange(self, t)
    /\ tc' = TcOnRequest(tc, self, self', t)
    /\ nCmds' = nCmds + 1
    /\ UNCHANGED <<wrap, conn, dev, main, now, nLines>>

GcodeSend(gcode) ==
    /\ main.pc = "idle" /\ nCmds < MaxCmds
    /\ IF CmdGcodeWaits(self, gcode)
       THEN /\ self' = SendSMuFF([self EXCEPT !.wdTimeout = WaitTimeout(gcode)], gcode)
            /\ main' = [WaitCall(self', "cmd_gcode", gcode, now)
                          EXCEPT !.wd0 = self.wdTimeout]
       ELSE /\ self' = IF self.isConnected /\ gcode # ""
                       THEN CmdGcodeReset(self, gcode) ELSE self
            /\ main' = main
    /\ nCmds' = nCmds + 1
    /\ UNCHANGED <<wrap, conn, dev, now, nLines, tc>>

Reconnect(openable) ==
    /\ main.pc = "idle" /\ nCmds < MaxCmds
    /\ LET s == ReconnectSMuFF(self, openable)
       IN  IF ReconnectProbes(s)
           THEN /\ self' = SendSMuFF([s EXCEPT !.wdTimeout = WaitTimeout(FWINFO)], FWINFO)
                /\ main' = [WaitCall(self', "_reconnect_SMuFF", FWINFO, now)
                              EXCEPT !.wd0 = s.wdTimeout]
           ELSE /\ self' = s
                /\ main' = main
    /\ nCmds' = nCmds + 1
    /\ conn' = ConnOp("reconnect", self, self')
    /\ UNCHANGED <<wrap, dev, now, nLines, tc>>

(***************************************************************************)
(* The steps of the blocked handler                                        *)
(***************************************************************************)
WaitProcessing ==
    /\ main.pc = "sent"
    /\ self' = SetProcessing(self, TRUE)
    /\ main' = [main EXCEPT !.pc = "clear"]
    /\ UNCHANGED <<wrap, conn, dev, now, nLines, nCmds, tc>>

WaitClear ==
    /\ main.pc = "clear"
    /\ self' = [self EXCEPT !.serEvent = FALSE]
    /\ main' = [main EXCEPT !.pc = "wait"]
    /\ UNCHANGED <<wrap, conn, dev, now, nLines, nCmds, tc>>

\* wait() returns at once when the event is set, and blocks otherwise
WaitEnter ==
    /\ main.pc = "wait"
    /\ IF self.serEvent
       THEN /\ self' = WaitWake(self, TRUE)
            /\ main' = WaitWoken([main EXCEPT !.waitStart = now], self, TRUE, now)
       ELSE /\ self' = self
            /\ main' = [main EXCEPT !.pc = "blocked", !.waitStart = now,
                                    !.deadline = now + main.timeout,
                                    !.signaled = FALSE, !.errBlocked = FALSE,
                                    !.busyBlocked = FALSE]
    /\ UNCHANGED <<wrap, conn, dev, now, nLines, nCmds, tc>>

\* the blocked caller wakes up: notified, or at the deadline
WaitWakeUp ==
    /\ main.pc = "blocked"
    /\ main.signaled \/ now >= main.deadline
    /\ self' = WaitWake(self, main.signaled)
    /\ main' = WaitWoken(main, self, main.signaled, now)
    /\ UNCHANGED <<wrap, conn, dev, now, nLines, nCmds, tc>>

\* _send_SMuFF_and_wait returns and the handler ends
WaitReturn ==
    /\ main.pc = "return"
    /\ main' = MainIdle
    /\ UNCHANGED <<wrap, conn, dev, self, now, nLines, nCmds, tc>>

(***************************************************************************)
(* The reactor timer of the tool change                                    *)
(***************************************************************************)
\* the exception of a failed call ends the callback for good: the reactor
\* does not call it again
ToolChangeTimer ==
    /\ main.pc = "idle"
    /\ self.tcTimer /\ tc.phase # "failed"
    /\ \E printing \in (IF self.tcState = 1 THEN BOOLEAN ELSE {FALSE}),
          preFails \in (IF self.tcState = 1 THEN BOOLEAN ELSE {FALSE}),
          paused \in (IF self.tcState = 5 THEN BOOLEAN ELSE {FALSE}),
          postFails \in (IF self.tcState = 5 THEN BOOLEAN ELSE {FALSE}) :
          /\ self' = ToolChange(self, now, printing, paused, preFails, postFails)
          /\ tc' = TcOnTimer(tc, self, self',
                             \/ self.tcState = 1 /\ printing /\ preFails
                             \/ self.tcState = 5 /\ paused /\ postFails)
    /\ UNCHANGED <<wrap, conn, dev, main, now, nLines, nCmds>>

(***************************************************************************)
(* The other threads, the device and the clock                             *)
(***************************************************************************)
\* the reader thread reads and parses one line
ReaderStep(l) ==
    /\ self.sreader /\ self.serial
    /\ \E printing \in (IF StartsWith(l, ACTION_CMD) THEN BOOLEAN ELSE {FALSE}),
          extrude \in (IF StartsWith(l, ACTION_CMD) THEN {"yes", "no", "raise"} ELSE {"no"}) :
          self' = ParseSerialData(self, l, printing, extrude)
    /\ main' = WaitOnLine(main, self', LineKind(l))
    /\ tc' = TcOnLine(tc, self, l)
    /\ nLines' = nLines + 1
    /\ UNCHANGED <<wrap, conn, now, nCmds>>

\* a line the device sends of its own accord
ReaderLine(l) ==
    /\ nLines < MaxLines
    /\ ReaderStep(l)
    /\ UNCHANGED dev

\* the reader thread catches a SerialException of the port
ReaderFault ==
    /\ self.sreader /\ self.serial /\ nLines < MaxLines
    /\ self' = [self EXCEPT !.serEvent = TRUE]
    /\ main' = WaitOnLine(main, self', "fault")
    /\ nLines' = nLines + 1
    /\ UNCHANGED <<wrap, conn, dev, now, nCmds, tc>>

\* time passes while a handler or a session is under way, but not beyond the
\* deadline of a blocked caller
Tick ==
    /\ now < MaxTime
    /\ main.pc # "idle" \/ self.tcTimer
    /\ ~(main.pc = "blocked" /\ now >= main.deadline)
    /\ now' = now + 1
    /\ UNCHANGED <<wrap, conn, dev, self, main, nLines, nCmds, tc>>

(***************************************************************************)
(* The tool change: requests, the timer, the device's lines, a disconnect  *)
(***************************************************************************)
InitReady ==
    /\ self = Ready
    /\ main = MainIdle
    /\ now = 0
    /\ nLines = 0
    /\ nCmds = 0
    /\ tc = NoSession
    /\ dev = DevIdle
    /\ conn = NoConn
    /\ wrap = Wrapper(FALSE)

TcLines == { R_OK, ToolEcho, StatesLine }

NextToolChange ==
    \/ \E t \in -1..MaxTool : ToolChangeRequest(t)
    \/ Disconnect
    \/ ToolChangeTimer
    \/ \E l \in TcLines : ReaderLine(l)
    \/ Tick

SpecToolChange == InitReady /\ [][NextToolChange]_vars

(***************************************************************************)
(* A command sent with SMUFF_SEND and its caller waiting for the response  *)
(***************************************************************************)
WaitLines == { R_OK, R_START, "echo: busy\n", "error: Jammed\n", "M119\n" }

NextWait ==
    \/ \E gcode \in Gcodes : GcodeSend(gcode)
    \/ WaitProcessing
    \/ WaitClear
    \/ WaitEnter
    \/ WaitWakeUp
    \/ WaitReturn
    \/ \E l \in WaitLines : ReaderLine(l)
    \/ ReaderFault
    \/ Tick

SpecWait == InitReady /\ [][NextWait]_vars

(***************************************************************************)
(* A reconnect and the initialisation that follows, with a device that     *)
(* answers every command written to it, in order, and sends its periodic   *)
(* states lines once they are enabled                                      *)
(***************************************************************************)
\* more lines than MaxLines are needed for the initialisation to get going
MaxInitLines == 5

\* the lines the device answers a command with: the echo of the command
\* word and "ok", the firmware line for M115, the category and the JSON
\* object for a configuration query
DeviceReply(cmd) ==
    IF StartsWith(cmd, FWINFO) THEN << "FIRMWARE_NAME: SMuFF\n", R_OK >>
    ELSE IF StartsWith(cmd, GETCONFIG(CFG_BASIC)) THEN << "/* Basic */\n", JsonBasic, R_OK >>
    ELSE IF StartsWith(cmd, GETCONFIG(CFG_MATERIALS)) THEN << "/* Materials */\n", JsonMaterials, R_OK >>
    ELSE IF StartsWith(cmd, GETCONFIG(CFG_SWAPS)) THEN << "/* Tool Swaps */\n", JsonSwaps, R_OK >>
    ELSE IF StartsWith(cmd, GETCONFIG(CFG_SERVOMAPS)) THEN << "/* Servo Mapping */\n", JsonServoMaps, R_OK >>
    ELSE IF StartsWith(cmd, GETCONFIG(CFG_FEEDSTATE)) THEN << "/* Feed State */\n", JsonFeedState, R_OK >>
    ELSE << FirstElement(RStrip(cmd, {"\n"})) \o "\n", R_OK >>

\* the device takes the next command written to it
DeviceTakes ==
    /\ dev.pending = <<>>
    /\ dev.next <= Len(self.written)
    /\ dev' = [ next |-> dev.next + 1,
                pending |-> DeviceReply(self.written[dev.next]),
                periodic |-> dev.periodic \/ StartsWith(self.written[dev.next], PERSTATE),
                last |-> dev.last,
                failed |-> dev.failed,
                host |-> dev.host ]
    /\ UNCHANGED <<wrap, conn, self, main, now, nLines, nCmds, tc>>

\* the next line of its answer reaches the reader
DeviceSends ==
    /\ dev.pending # <<>>
    /\ nLines < MaxInitLines
    /\ ReaderStep(Head(dev.pending))
    /\ dev' = [dev EXCEPT !.pending = Tail(@),
                          !.failed = IF StartsWith(Head(dev.pending), R_ERROR)
                                     THEN @ \cup {dev.next - 1} ELSE @]

\* a periodic states line reaches the reader
DeviceStates ==
    /\ dev.periodic
    /\ nLines < MaxInitLines
    /\ ReaderStep(StatesLine)
    /\ UNCHANGED dev

\* the instance after SMUFF_DISC
Closed == CmdDisconnect(Ready)

InitClosed ==
    /\ self = Closed
    /\ main = MainIdle
    /\ now = 0
    /\ nLines = 0
    /\ nCmds = 0
    /\ tc = NoSession
    /\ dev = DevIdle
    /\ conn = NoConn
    /\ wrap = Wrapper(FALSE)

NextInit ==
    \/ \E openable \in BOOLEAN : Reconnect(openable)
    \/ WaitProcessing
    \/ WaitClear
    \/ WaitEnter
    \/ WaitWakeUp
    \/ WaitReturn
    \/ DeviceTakes
    \/ DeviceSends
    \/ DeviceStates
    \/ Tick

SpecInit == InitClosed /\ [][NextInit]_vars

(***************************************************************************)
(* The connection life cycle from load_config on: the connector thread,    *)
(* SMUFF_CONN, SMUFF_DISC, klippy:disconnect and a reconnect               *)
(***************************************************************************)
Connect(openable) ==
    /\ main.pc = "idle" /\ nCmds < MaxCmds
    /\ self' = CmdConnect(self, openable)
    /\ conn' = ConnOp("connect", self, self')
    /\ nCmds' = nCmds + 1
    /\ UNCHANGED <<wrap, dev, main, now, nLines, tc>>

KlippyDisconnect ==
    /\ main.pc = "idle" /\ nCmds < MaxCmds
    /\ self' = EventDisconnect(self)
    /\ conn' = ConnOp("close", self, self')
    /\ nCmds' = nCmds + 1
    /\ UNCHANGED <<wrap, dev, main, now, nLines, tc>>

\* the connector thread, alive as long as _sconnector refers to it
Connector(openable) ==
    /\ self.sconnector
    /\ self' = SerialConnector(self, openable)
    /\ conn' = ConnOp("connector", self, self')
    /\ UNCHANGED <<wrap, dev, main, now, nLines, nCmds, tc>>

InitLoaded ==
    /\ \E autoConnect \in BOOLEAN : self = LoadConfig(autoConnect)
    /\ main = MainIdle
    /\ now = 0
    /\ nLines = 0
    /\ nCmds = 0
    /\ tc = NoSession
    /\ dev = DevIdle
    /\ conn = NoConn
    /\ wrap = Wrapper(FALSE)

ConnLines == { R_OK, StatesLine, "FIRMWARE_NAME: SMuFF\n" }

NextConn ==
    \/ \E openable \in BOOLEAN : Connect(openable)
    \/ Disconnect
    \/ KlippyDisconnect
    \/ \E openable \in BOOLEAN : Connector(openable)
    \/ \E openable \in BOOLEAN : Reconnect(openable)
    \/ WaitProcessing
    \/ WaitClear
    \/ WaitEnter
    \/ WaitWakeUp
    \/ WaitReturn
    \/ \E l \in ConnLines : ReaderLine(l)
    \/ Tick

SpecConn == InitLoaded /\ [][NextConn]_vars

(***************************************************************************)
(* What the device reports: category lines and JSON payloads, and states   *)
(* lines with a tool and a SPL: value, read by a connected and initialised *)
(* instance                                                                *)
(***************************************************************************)
JsonLines ==
    { "/* Materials */\n", "/* Tool Swaps */\n", "/* Feed State */\n",
      JsonMaterials, JsonMaterialsShort, JsonSwaps, JsonFeedState, JsonBroken }

\* the SPL: values the device reports: the six of the load state table and
\* one with two bits set
SplValues == {0, 1, 16, 2, 32, 64, 3}

SplLine(tool, spl) ==
    "echo: states: T: " \o tool \o " SPL: " \o ToString(spl) \o "\n"

\* a states line reaches the reader; dev.last keeps what it reported
StatesReport(tool, spl) ==
    /\ nLines < MaxLines
    /\ ReaderStep(SplLine(tool, spl))
    /\ dev' = [dev EXCEPT !.last = <<tool, spl>>]

NextParse ==
    \/ \E l \in JsonLines : ReaderLine(l)
    \/ \E tool \in {"T-1", "T0"}, spl \in SplValues : StatesReport(tool, spl)

SpecParse == InitReady /\ [][NextParse]_vars

\* category lines of all five categories and of one the module does not
\* keep, payloads of tool numbers and of the basic settings, a payload that
\* is no JSON, and the lines that come in between
CategoryLines ==
    { "/* Basic */\n", "/* Materials */\n", "/* Tool Swaps */\n",
      "/* Servo Mapping */\n", "/* Feed State */\n", "/* Steppers */\n",
      JsonBasic, JsonSwaps, JsonFeedState, JsonBroken, R_OK, StatesLine }

NextCategory == \E l \in CategoryLines : ReaderLine(l)

SpecCategory == InitReady /\ [][NextCategory]_vars

(***************************************************************************)
(* A tool change session on a connection that is also used by SMUFF_CUT,   *)
(* by the replies to the device's "//action:" requests and by the requests *)
(* of _async_init, with a device that answers every command in order and   *)
(* may answer with an "error:" line                                        *)
(***************************************************************************)
\* the operator's SMUFF_CUT, handled by the reactor between two calls of the
\* timer of a session
Cut ==
    /\ main.pc = "idle" /\ nCmds < MaxCmds
    /\ self.tcTimer
    /\ self' = CmdCut(self)
    /\ nCmds' = nCmds + 1
    /\ UNCHANGED <<wrap, conn, dev, main, now, nLines, tc>>

\* the lines the device answers a command it cannot carry out with
ErrorReplies == { << "error: Jammed\n" >>, << "error: Jammed\n", R_OK >> }

\* the device takes the next command and cannot carry it out
DeviceRejects ==
    /\ dev.pending = <<>>
    /\ dev.next <= Len(self.written)
    /\ \E reply \in ErrorReplies :
          dev' = [dev EXCEPT !.next = @ + 1, !.pending = reply]
    /\ UNCHANGED <<wrap, conn, self, main, now, nLines, nCmds, tc>>

\* lines the reader processes in one behaviour of the session
MaxSessionLines == 4

\* a periodic states line while a session is under way
SessionStates == self.tcTimer /\ nLines < MaxSessionLines /\ DeviceStates

\* the next line of the device's answer
SessionSends == nLines < MaxSessionLines /\ DeviceSends

\* time passes while the session waits for the answer
SessionTick == self.tcState = 3 /\ Tick

\* the device asks the host for a tool change of its own accord, once,
\* while the session waits for the answer to its tool select command
DeviceAsks ==
    /\ nLines < MaxSessionLines
    /\ self.tcState = 3
    /\ \A i \in DOMAIN self.written : ~StartsWith(self.written[i], ACTION_CMD)
    /\ ReaderStep(ACTION_CMD \o "T1\n")
    /\ UNCHANGED dev

\* connected and initialised, the periodic states lines switched on
InitSession ==
    /\ self = Ready
    /\ main = MainIdle
    /\ now = 0
    /\ nLines = 0
    /\ nCmds = 0
    /\ tc = NoSession
    /\ dev = [DevIdle EXCEPT !.periodic = TRUE]
    /\ conn = NoConn
    /\ wrap = Wrapper(FALSE)

NextSession ==
    \/ ToolChangeRequest(1)
    \/ Cut
    \/ ToolChangeTimer
    \/ DeviceTakes
    \/ DeviceRejects
    \/ SessionSends
    \/ SessionStates
    \/ DeviceAsks
    \/ SessionTick

SpecSession == InitSession /\ [][NextSession]_vars

(***************************************************************************)
(* A caller blocked in _send_SMuFF_and_wait while the connection is closed *)
(* by a thread other than the caller's (the host delivering                *)
(* klippy:disconnect; _reconnect_SMuFF on the thread the watchdog was      *)
(* written to start for it)                                                *)
(***************************************************************************)
\* _close_serial runs to its end while the caller waits for its event; the
\* caller is notified if the teardown sets the event
CloseWhileBlocked ==
    /\ main.pc = "blocked" /\ ~main.signaled
    /\ self.serial
    /\ self' = EventDisconnect(self)
    /\ main' = [main EXCEPT !.closed = TRUE,
                            !.signaled = self'.serEvent /\ ~self.serEvent]
    /\ conn' = ConnOp("close", self, self')
    /\ UNCHANGED <<wrap, dev, now, nLines, nCmds, tc>>

TeardownLines == { R_OK, "M119\n" }

NextTeardown ==
    \/ \E gcode \in Gcodes : GcodeSend(gcode)
    \/ WaitProcessing
    \/ WaitClear
    \/ WaitEnter
    \/ WaitWakeUp
    \/ WaitReturn
    \/ \E l \in TeardownLines : ReaderLine(l)
    \/ CloseWhileBlocked
    \/ Tick

SpecTeardown == InitReady /\ [][NextTeardown]_vars

(***************************************************************************)
(* The tool change session and the statistics: SMUFF_RESET_AVG between two *)
(* calls of the timer                                                      *)
(***************************************************************************)
ResetAvg ==
    /\ main.pc = "idle" /\ nCmds < MaxCmds
    /\ self' = CmdResetAvg(self)
    /\ nCmds' = nCmds + 1
    /\ UNCHANGED <<wrap, conn, dev, main, now, nLines, tc>>

NextStats ==
    \/ \E t \in 0..1 : ToolChangeRequest(t)
    \/ ResetAvg
    \/ ToolChangeTimer
    \/ \E l \in TcLines : ReaderLine(l)
    \/ Tick

SpecStats == InitReady /\ [][NextStats]_vars

(***************************************************************************)
(* The session under a fair reactor: the timer is called again and again   *)
(* and time goes on, whatever the device sends and the operator does       *)
(***************************************************************************)
\* time passes while a session runs, up to the point where state 3 times out
SessionClock ==
    /\ self.tcTimer
    /\ now <= self.tcStartTime + TcTimeout
    /\ now' = now + 1
    /\ UNCHANGED <<wrap, conn, dev, self, main, nLines, nCmds, tc>>

LiveLines == TcLines \cup { "error: Jammed\n" }

NextLive ==
    \/ \E t \in 0..1 : ToolChangeRequest(t)
    \/ ResetAvg
    \/ Disconnect
    \/ ToolChangeTimer
    \/ \E l \in LiveLines : ReaderLine(l)
    \/ SessionClock

\* the same without SMUFF_RESET_AVG
NextLiveNoReset ==
    \/ \E t \in 0..1 : ToolChangeRequest(t)
    \/ Disconnect
    \/ ToolChangeTimer
    \/ \E l \in LiveLines : ReaderLine(l)
    \/ SessionClock

Fairness == WF_vars(ToolChangeTimer) /\ WF_vars(SessionClock)

SpecLive == InitReady /\ [][NextLive]_vars /\ Fairness

SpecLiveNoReset == InitReady /\ [][NextLiveNoReset]_vars /\ Fairness

(***************************************************************************)
(* A tool change requested by the device ("//action:T<n>"), with what the  *)
(* host reports at that moment                                             *)
(***************************************************************************)
\* the reader processes the request; printing is idle_timeout.state =
\* "Printing", extrude is heater.extruder.can_extrude ("raise": the lookup
\* throws)
RemoteToolChange(n, printing, extrude) ==
    /\ nLines < MaxLines
    /\ self.sreader /\ self.serial
    /\ LET l == ACTION_CMD \o TOOL \o ToString(n) \o "\n"
       IN  /\ self' = ParseSerialData(self, l, printing, extrude)
           /\ main' = WaitOnLine(main, self', LineKind(l))
           /\ tc' = TcOnLine(tc, self, l)
    /\ nLines' = nLines + 1
    /\ dev' = [dev EXCEPT !.host = << printing, extrude, self.hostTool >>]
    /\ UNCHANGED <<wrap, conn, now, nCmds>>

NextRemote ==
    \/ \E n \in 0..1, printing \in BOOLEAN, extrude \in {"yes", "no", "raise"} :
          RemoteToolChange(n, printing, extrude)
    \/ ReaderLine(R_OK)

SpecRemote == InitReady /\ [][NextRemote]_vars

(***************************************************************************)
(* SMUFF_SEND with a port whose write may fail                             *)
(***************************************************************************)
\* cmd_gcode when the write of _send_SMuFF raises: _send_SMuFF_and_wait
\* returns None at once
GcodeSendFails(gcode) ==
    /\ main.pc = "idle" /\ nCmds < MaxCmds
    /\ CmdGcodeWaits(self, gcode)
    /\ self' = SendSMuFFRaises([self EXCEPT !.wdTimeout = WaitTimeout(gcode)], gcode)
    /\ main' = [MainIdle EXCEPT !.pc = "return", !.fn = "cmd_gcode", !.data = gcode,
                                !.timeout = WaitTimeout(gcode), !.callTime = now,
                                !.wakeTime = now, !.wd0 = self.wdTimeout]
    /\ nCmds' = nCmds + 1
    /\ UNCHANGED <<wrap, conn, dev, now, nLines, tc>>

NextWrite ==
    \/ \E gcode \in Gcodes : GcodeSend(gcode)
    \/ \E gcode \in Gcodes : GcodeSendFails(gcode)
    \/ WaitProcessing
    \/ WaitClear
    \/ WaitEnter
    \/ WaitWakeUp
    \/ WaitReturn
    \/ \E l \in WaitLines : ReaderLine(l)
    \/ Tick

SpecWrite == InitReady /\ [][NextWrite]_vars

(***************************************************************************)
(* cmd_connect run by the connector thread and by the reactor (SMUFF_CONN) *)
(* at the same time: each of them tests _isConnected and then, in a second *)
(* step, connects                                                          *)
(***************************************************************************)
\* SMUFF_CONN, the test of _isConnected
ConnectTest ==
    /\ main.pc = "idle" /\ nCmds < MaxCmds
    /\ main' = IF self.isConnected THEN main ELSE [main EXCEPT !.pc = "connect"]
    /\ nCmds' = nCmds + 1
    /\ UNCHANGED <<wrap, conn, dev, self, now, nLines, tc>>

\* SMUFF_CONN, the call of _connect_SMuFF
ConnectOpen(openable) ==
    /\ main.pc = "connect"
    /\ self' = ConnectSMuFF(self, openable)
    /\ main' = [main EXCEPT !.pc = "idle"]
    /\ conn' = ConnOp("connect", self, self')
    /\ UNCHANGED <<wrap, dev, now, nLines, nCmds, tc>>

\* the connector thread, the test of the stop flag and, in cmd_connect, of
\* _isConnected: the thread ends on the stop flag and when the instance is
\* connected already
ConnectorTest ==
    /\ self.sconnector /\ conn.pc = "idle"
    /\ IF self.stopSerial \/ self.isConnected
       THEN /\ self' = [self EXCEPT !.sconnector = FALSE]
            /\ conn' = ConnOp("connector", self, self')
       ELSE /\ self' = self
            /\ conn' = [conn EXCEPT !.pc = "open"]
    /\ UNCHANGED <<wrap, dev, main, now, nLines, nCmds, tc>>

\* the connector thread, the call of _connect_SMuFF; with autoConnect
\* cmd_connect returns True and the thread ends
ConnectorOpen(openable) ==
    /\ conn.pc = "open"
    /\ self' = [ConnectSMuFF(self, openable) EXCEPT !.sconnector = FALSE]
    /\ conn' = [ConnOp("connector", self, self') EXCEPT !.pc = "idle"]
    /\ UNCHANGED <<wrap, dev, main, now, nLines, nCmds, tc>>

NextRace ==
    \/ ConnectTest
    \/ \E openable \in BOOLEAN : ConnectOpen(openable)
    \/ ConnectorTest
    \/ \E openable \in BOOLEAN : ConnectorOpen(openable)
    \/ \E openable \in BOOLEAN : Reconnect(openable)
    \/ WaitProcessing
    \/ WaitClear
    \/ WaitEnter
    \/ WaitWakeUp
    \/ WaitReturn
    \/ \E l \in ConnLines : ReaderLine(l)
    \/ Tick

SpecRace == InitLoaded /\ [][NextRace]_vars

(***************************************************************************)
(* SMUFF_LOAD and SMUFF_UNLOAD with the ok-wait timer, with a device that  *)
(* answers with the echo and "ok", with an "error:" line, or not at all    *)
(***************************************************************************)
\* the handler up to the write
Load(cmd) ==
    /\ main.pc = "idle" /\ nCmds < MaxCmds
    /\ IF CmdLoadSends(self)
       THEN /\ self' = CmdLoadSend(self, cmd)
            /\ main' = [main EXCEPT !.pc = "arm"]
       ELSE /\ self' = self
            /\ main' = main
    /\ nCmds' = nCmds + 1
    /\ UNCHANGED <<wrap, conn, dev, now, nLines, tc>>

\* the handler after the write
LoadArm ==
    /\ main.pc = "arm"
    /\ self' = CmdLoadArm(self)
    /\ main' = [main EXCEPT !.pc = "idle"]
    /\ UNCHANGED <<wrap, conn, dev, now, nLines, nCmds, tc>>

\* the reactor calls the ok-wait timer
OkTimer ==
    /\ main.pc = "idle"
    /\ self.okTimer
    /\ self' = WaitForOk(self)
    /\ UNCHANGED <<wrap, conn, dev, main, now, nLines, nCmds, tc>>

\* time passes while the ok-wait timer is registered
LoadClock ==
    /\ now < MaxTime
    /\ self.okTimer
    /\ now' = now + 1
    /\ UNCHANGED <<wrap, conn, dev, self, main, nLines, nCmds, tc>>

NextLoad ==
    \/ \E cmd \in {LOAD, UNLOAD} : Load(cmd)
    \/ LoadArm
    \/ OkTimer
    \/ DeviceTakes
    \/ DeviceRejects
    \/ DeviceSends
    \/ LoadClock

\* the reactor runs its handlers and timers and the clock advances; the
\* device need not answer
FairnessLoad == WF_vars(LoadArm) /\ WF_vars(OkTimer) /\ WF_vars(LoadClock)

SpecLoad == InitReady /\ [][NextLoad]_vars /\ FairnessLoad

\* the same with a device that answers every command
SpecLoadAnswered ==
    SpecLoad /\ WF_vars(DeviceTakes \/ DeviceRejects) /\ WF_vars(DeviceSends)

(***************************************************************************)
(* Requests and a disconnect while a session is under way: the run begins  *)
(* when SMUFF_TOOL_CHANGE T=1 has registered the timer                     *)
(***************************************************************************)
InitBusy ==
    /\ self = CmdToolChange(Ready, 1)
    /\ main = MainIdle
    /\ now = 0
    /\ nLines = 0
    /\ nCmds = 0
    /\ tc = TcOnRequest(NoSession, Ready, self, 1)
    /\ dev = DevIdle
    /\ conn = NoConn
    /\ wrap = Wrapper(FALSE)

SpecBusy == InitBusy /\ [][NextToolChange]_vars

(***************************************************************************)
(* The operator's queries of the configuration tables, after the           *)
(* initialisation, with a device that answers every command in order and   *)
(* sends its periodic states lines                                         *)
(***************************************************************************)
ConfigQuery(q) ==
    /\ main.pc = "idle" /\ nCmds < MaxCmds
    /\ self' = CASE q = "materials" -> CmdMaterials(self)
                 [] q = "swaps" -> CmdSwaps(self)
                 [] q = "lidmappings" -> CmdLidMappings(self)
    /\ nCmds' = nCmds + 1
    /\ UNCHANGED <<wrap, conn, dev, main, now, nLines, tc>>

InitQuery ==
    /\ self = Ready
    /\ main = MainIdle
    /\ now = 0
    /\ nLines = 0
    /\ nCmds = 0
    /\ tc = NoSession
    /\ dev = [DevIdle EXCEPT !.periodic = TRUE]
    /\ conn = NoConn
    /\ wrap = Wrapper(FALSE)

NextQuery ==
    \/ \E q \in {"materials", "swaps", "lidmappings"} : ConfigQuery(q)
    \/ DeviceTakes
    \/ DeviceSends
    \/ DeviceStates

SpecQuery == InitQuery /\ [][NextQuery]_vars

(***************************************************************************)
(* The port closed underneath the module (the device unplugged, the port   *)
(* closed by the system): the loops of the reader and of the watchdog      *)
(* thread notice it                                                        *)
(***************************************************************************)
\* the port of a connected instance is closed from outside
PortCloses ==
    /\ self.serial /\ self.isConnected
    /\ self' = [self EXCEPT !.serial = FALSE, !.lost = TRUE]
    /\ UNCHANGED <<wrap, conn, dev, main, now, nLines, nCmds, tc>>

\* a round of the reader's loop that ends it
ReaderLoop ==
    /\ self.readers > 0
    /\ self.stopSerial \/ ~self.serial
    /\ self' = SerialReader(self)
    /\ main' = WaitOnLine(main, self', "fault")
    /\ UNCHANGED <<wrap, conn, dev, now, nLines, nCmds, tc>>

\* a round of the watchdog's loop
WatchdogLoop ==
    /\ self.watchdogs > 0
    /\ self' = SerialWatchdog(self)
    /\ UNCHANGED <<wrap, conn, dev, main, now, nLines, nCmds, tc>>

LostLines == { R_OK, StatesLine }

NextLost ==
    \/ PortCloses
    \/ ReaderLoop
    \/ WatchdogLoop
    \/ \E openable \in BOOLEAN : Connect(openable)
    \/ Disconnect
    \/ \E gcode \in Gcodes : GcodeSend(gcode)
    \/ WaitProcessing
    \/ WaitClear
    \/ WaitEnter
    \/ WaitWakeUp
    \/ WaitReturn
    \/ \E l \in LostLines : ReaderLine(l)
    \/ Tick

\* the threads and the reactor get to run; the operator need not do anything
FairnessLost ==
    /\ WF_vars(ReaderLoop) /\ WF_vars(WatchdogLoop)
    /\ WF_vars(WaitProcessing) /\ WF_vars(WaitClear) /\ WF_vars(WaitEnter)
    /\ WF_vars(WaitWakeUp) /\ WF_vars(WaitReturn)

SpecLost == InitReady /\ [][NextLost]_vars /\ FairnessLost

(***************************************************************************)
(* The module for two devices: its handlers, each routed by get_instance   *)
(***************************************************************************)
\* handlers run in one behaviour of the two device module
MaxOps == 3

\* autoConnect, called by load_config
AutoConnect(w, openA, openB) ==
    LET w1 == IF w.SCA.autoConnect
              THEN [w EXCEPT !.SCA = CoreConnect(@, openA)] ELSE w
    IN  IF w1.hasIDEX /\ w1.SCB.autoConnect
        THEN [w1 EXCEPT !.SCB = CoreConnect(@, openB)] ELSE w1

\* cmd_connect (SMUFF_CONN)
DualConnect(device, openable) ==
    /\ nCmds < MaxOps
    /\ LET w == GetInstance(wrap, device)
           c == Instance(w)
       IN  wrap' = Handled("connect", device, w.instance, wrap,
                           IF c.isConnected THEN w
                           ELSE OnInstance(w, CoreConnect(c, openable)))
    /\ nCmds' = nCmds + 1
    /\ UNCHANGED <<self, main, now, nLines, tc, dev, conn>>

\* cmd_disconnect (SMUFF_DISC)
DualDisconnect(device) ==
    /\ nCmds < MaxOps
    /\ LET w == GetInstance(wrap, device)
       IN  wrap' = Handled("disconnect", device, w.instance, wrap,
                           OnInstance(w, CoreClose(Instance(w))))
    /\ nCmds' = nCmds + 1
    /\ UNCHANGED <<self, main, now, nLines, tc, dev, conn>>

\* cmd_cut (SMUFF_CUT): chk_connection, then the command is sent
DualCut(device) ==
    /\ nCmds < MaxOps
    /\ LET w == GetInstance(wrap, device)
           c == Instance(w)
       IN  wrap' = Handled("cut", device, w.instance, wrap,
                           IF ~c.isConnected THEN w
                           ELSE OnInstance(w, CoreSend(c, CUT)))
    /\ nCmds' = nCmds + 1
    /\ UNCHANGED <<self, main, now, nLines, tc, dev, conn>>

\* cmd_tool_change (SMUFF_TOOL_CHANGE): chk_connection, then the request is
\* handed to the core
DualToolChange(device, t) ==
    /\ nCmds < MaxOps
    /\ LET w == GetInstance(wrap, device)
           c == Instance(w)
       IN  wrap' = Handled("tool_change", device, w.instance, wrap,
                           IF ~c.isConnected THEN w
                           ELSE OnInstance(w, CoreChangeTool(c, t)))
    /\ nCmds' = nCmds + 1
    /\ UNCHANGED <<self, main, now, nLines, tc, dev, conn>>

\* cmd_dump_raw (SMUFF_DUMP_RAW): no routing, the flag of both cores is
\* toggled
DualDumpRaw(device) ==
    /\ nCmds < MaxOps
    /\ wrap' = Handled("dump_raw", device, "", wrap,
                       [wrap EXCEPT !.SCA.dumpRawData = ~@,
                                    !.SCB.dumpRawData = ~@])
    /\ nCmds' = nCmds + 1
    /\ UNCHANGED <<self, main, now, nLines, tc, dev, conn>>

\* cmd_instance (SMUFF_INSTANCE) and set_instance
DualInstance(param) ==
    /\ nCmds < MaxOps
    /\ wrap' = IF ~wrap.hasIDEX
               THEN Handled("instance", param, "", wrap, wrap)
               ELSE IF Upper(param) = "A" \/ Upper(param) = "B"
               THEN Handled("instance", param, "", wrap,
                            [wrap EXCEPT !.activeInstance = Upper(param),
                                         !.selected = Upper(param)])
               ELSE Handled("instance", param, "", wrap, wrap)
    /\ nCmds' = nCmds + 1
    /\ UNCHANGED <<self, main, now, nLines, tc, dev, conn>>

\* get_status, polled by the host
DualGetStatus ==
    /\ nCmds < MaxOps
    /\ LET w == GetInstance(wrap, "none")
       IN  wrap' = Handled("get_status", "none", w.instance, wrap, w)
    /\ nCmds' = nCmds + 1
    /\ UNCHANGED <<self, main, now, nLines, tc, dev, conn>>

\* event_disconnect (klippy:disconnect): both cores are closed
DualEventDisconnect ==
    /\ nCmds < MaxOps
    /\ wrap' = Handled("event_disconnect", "none", "", wrap,
                       [wrap EXCEPT !.SCA = CoreClose(@), !.SCB = CoreClose(@)])
    /\ nCmds' = nCmds + 1
    /\ UNCHANGED <<self, main, now, nLines, tc, dev, conn>>

InitDual ==
    /\ \E hasIDEX, openA, openB \in BOOLEAN :
          wrap = AutoConnect(Wrapper(hasIDEX), openA, openB)
    /\ self = SMuFF
    /\ main = MainIdle
    /\ now = 0
    /\ nLines = 0
    /\ nCmds = 0
    /\ tc = NoSession
    /\ dev = DevIdle
    /\ conn = NoConn

NextDual ==
    \/ \E device \in Devices, openable \in BOOLEAN : DualConnect(device, openable)
    \/ \E device \in Devices : DualDisconnect(device)
    \/ \E device \in Devices : DualCut(device)
    \/ \E device \in Devices, t \in 0..1 : DualToolChange(device, t)
    \/ \E device \in Devices : DualDumpRaw(device)
    \/ \E param \in Devices \ {""} : DualInstance(param)
    \/ DualGetStatus
    \/ DualEventDisconnect

SpecDual == InitDual /\ [][NextDual]_vars

(***************************************************************************)
(* The operator's commands on an instance that is connected or not: the    *)
(* handlers of smuff.py and, for the module for two devices, SMUFF_CUT and *)
(* SMUFF_TOOL_CHANGE behind chk_connection                                 *)
(***************************************************************************)
\* the commands of the handlers that only send
SendCommands == { WIPE, LIDOPEN, LIDCLOSE, HOME, MOTORSOFF, UNJAM, RESET }

\* SMUFF_WIPE, SMUFF_LID_OPEN, SMUFF_LID_CLOSE, SMUFF_HOME, SMUFF_MOTORS_OFF,
\* SMUFF_CLEAR_JAM, SMUFF_RESET
Send(cmd) ==
    /\ main.pc = "idle" /\ nCmds < MaxCmds
    /\ self' = CmdSend(self, cmd)
    /\ nCmds' = nCmds + 1
    /\ UNCHANGED <<wrap, conn, dev, main, now, nLines, tc>>

\* SMUFF_CUT
CutAnytime ==
    /\ main.pc = "idle" /\ nCmds < MaxCmds
    /\ self' = CmdCut(self)
    /\ nCmds' = nCmds + 1
    /\ UNCHANGED <<wrap, conn, dev, main, now, nLines, tc>>

\* SMUFF_SET_SERVO
ServoPos(servo, pos) ==
    /\ main.pc = "idle" /\ nCmds < MaxCmds
    /\ self' = CmdServoPos(self, servo, pos)
    /\ nCmds' = nCmds + 1
    /\ UNCHANGED <<wrap, conn, dev, main, now, nLines, tc>>

\* SMUFF_PARAM
Param(param, paramVal) ==
    /\ main.pc = "idle" /\ nCmds < MaxCmds
    /\ IF CmdParamWaits(self, param, paramVal)
       THEN LET data == SETPARAM(param, paramVal)
            IN  /\ self' = SendSMuFF([self EXCEPT !.wdTimeout = WaitTimeout(data)], data)
                /\ main' = [WaitCall(self', "cmd_param", data, now)
                              EXCEPT !.wd0 = self.wdTimeout]
       ELSE /\ self' = self
            /\ main' = main
    /\ nCmds' = nCmds + 1
    /\ UNCHANGED <<wrap, conn, dev, now, nLines, tc>>

\* a command of the operator that is bound for the device
DeviceOperation ==
    \/ \E cmd \in SendCommands : Send(cmd)
    \/ CutAnytime
    \/ \E pos \in {-1, 90, 181} : ServoPos(1, pos)
    \/ \E paramVal \in {"", "1"} : Param("BowdenLen", paramVal)
    \/ \E gcode \in Gcodes \cup {"", RESET} : GcodeSend(gcode)
    \/ \E t \in -1..MaxTool : ToolChangeRequest(t)
    \/ \E q \in {"materials", "swaps", "lidmappings"} : ConfigQuery(q)
    \/ \E cmd \in {LOAD, UNLOAD} : Load(cmd)

\* a command of the operator to the module for two devices that is bound
\* for a device
DualDeviceOperation(device) ==
    /\ nCmds < MaxCmds
    /\ \/ DualCut(device)
       \/ \E t \in 0..1 : DualToolChange(device, t)

\* SMUFF_CONN to the module for two devices
DualConnects(device, openable) == nCmds < MaxCmds /\ DualConnect(device, openable)

NextOffline ==
    \/ DeviceOperation
    \/ \E device \in Devices : DualDeviceOperation(device)
    \/ \E device \in Devices, openable \in BOOLEAN : DualConnects(device, openable)
    \/ \E openable \in BOOLEAN : Connect(openable)
    \/ Disconnect
    \/ LoadArm
    \/ WaitProcessing
    \/ WaitClear
    \/ WaitEnter
    \/ WaitWakeUp
    \/ WaitReturn
    \/ ToolChangeTimer
    \/ ReaderLine(R_OK)
    \/ Tick

SpecOffline == InitReady /\ [][NextOffline]_vars

(***************************************************************************)
(* Properties of the tool change (SpecToolChange)                          *)
(***************************************************************************)
IsPrefix(a, b) == Len(a) <= Len(b) /\ a = SubSeq(b, 1, Len(a))

\* the device has answered the tool select command of the session with its
\* echo and "ok", nothing else has come in between, no macro has failed, and
\* the tool requested is one of the device's tools
SessionAnswered ==
    /\ tc.phase \in {"run", "done"}
    /\ tc.clean /\ tc.got = 2 /\ ~tc.macroFail
    /\ self.pendingTool \in 0..(self.toolCount - 1)

\* C1: a tool change to another tool of the device, requested on a connected
\* instance with no session under way, answered by the device with the echo
\* and "ok" and with no macro failing, goes through the states 1, 2, 3, 4, 5, 6
\* in this order, each once; the timer stays registered until then and is
\* unregistered after state 6, and _tcCount is one more than before the request.
C1_StagesInOrder ==
    SessionAnswered =>
        /\ IsPrefix(tc.trace, <<1, 2, 3, 4, 5, 6>>)
        /\ self.tcCount = tc.count0 + 1
        /\ tc.phase = "run" => self.tcTimer
        /\ tc.phase = "done" => /\ tc.trace = <<1, 2, 3, 4, 5, 6>>
                                /\ ~self.tcTimer
                                /\ self.tcState = 0

\* a session of this kind has ended
C1_Witness ==
    /\ SessionAnswered
    /\ tc.phase = "done"
    /\ tc.trace = <<1, 2, 3, 4, 5, 6>>
    /\ self.tcCount = tc.count0 + 1

\* C2: a tool change request for the tool that is selected already writes
\* nothing, registers no timer (the state stays 0) and leaves _tcCount and
\* _durationTotal as they are.
C2_SameToolNoOp ==
    [][\A t \in -1..MaxTool :
          (ToolChangeRequest(t) /\ t = ParseToolNumber(self.curTool)) =>
              /\ self'.written = self.written
              /\ self'.tcTimer = self.tcTimer
              /\ self'.tcState = self.tcState
              /\ ~self.tcTimer => self'.tcState = 0
              /\ self'.tcCount = self.tcCount
              /\ self'.durationTotal = self.durationTotal]_vars

\* the last request was for the selected tool, here tool 1 after the device
\* has reported it
C2_Witness ==
    /\ tc.said = "T_SKIP_TOOL"
    /\ self.curTool = "T1"
    /\ self.pendingTool = 1
    /\ ~self.tcTimer

C4_ErrorResolves ==
    self.errDone > 0 => self.isError /\ self.lastCmdDone

\* an "ok" with an echo before it has come after the "error:" line
C4_Witness ==
    /\ self.errDone = 2
    /\ {"error", "other", "ok"} \subseteq main.seen
    /\ self.isError /\ self.lastCmdDone

C6_NoLostWakeup ==
    (main.pc = "return" /\ main.okEarly) =>
        main.nTimeouts = 0 /\ main.result # None

C8_BusySuppressesOnce ==
    (main.wrote /\ main.seen = {"busy"}) =>
        /\ main.nTimeouts <= 2
        /\ main.nTimeouts = 2 => main.pc = "return"

InitSequence ==
    << PERSTATE \o OPT_ON, GETCONFIG(CFG_BASIC), GETCONFIG(CFG_MATERIALS),
       FWINFO, GETCONFIG(CFG_SWAPS), GETCONFIG(CFG_SERVOMAPS) >>

\* C10: after a reconnect with the port openable and the device answering,
\* the instance is connected and the requests of the initialisation are
\* written once each and in their order, however many states lines arrive.
C10_InitOnceInOrder ==
    self.initLog # <<>> =>
        /\ self.isConnected
        /\ IsPrefix(self.initLog, InitSequence)

(***************************************************************************)
(* Properties of the connection life cycle (SpecConn)                      *)
(***************************************************************************)
\* the instance has no port and no thread left
TornDown(s) ==
    /\ ~s.serial /\ ~s.isConnected
    /\ ~s.sreader /\ ~s.swatchdog /\ ~s.sconnector

C12_ConnectorEndsConnected ==
    (conn.op = "connector" /\ ~self.sconnector) =>
        self.isConnected \/ self.stopSerial

\* C13: a reconnect requested while the connector thread is running is
\* suppressed: the instance (port, threads, _isConnected, stop flag) and the
\* reactor are left exactly as they were, and nothing is written.
C13_ReconnectSuppressed ==
    [][\A openable \in BOOLEAN :
          (Reconnect(openable) /\ self.sconnector) =>
              self' = self /\ main' = main]_vars

\* a reconnect was requested while the connector started by load_config ran
C13_Witness ==
    /\ conn.op = "reconnect" /\ conn.wasConnecting /\ conn.same
    /\ self.sconnector /\ ~self.isConnected

(***************************************************************************)
(* Properties of the module for two devices (SpecDual)                     *)
(***************************************************************************)
\* C14 as stated: no handler addressed to one instance (routed to it, or
\* naming it in DEVICE) changes a field of the other instance.
C14_AddressedTouchesOwnInstance ==
    LET addressed == IF wrap.routed # "" THEN wrap.routed
                     ELSE IF wrap.op = "dump_raw" /\ wrap.device \in {"A", "b"}
                     THEN Upper(wrap.device)
                     ELSE ""
    IN  /\ addressed = "A" => "B" \notin wrap.touched
        /\ addressed = "B" => "A" \notin wrap.touched

\* C14: a handler that get_instance routes to instance A changes no field of
\* SCB, and a handler routed to instance B changes no field of SCA.
C14_RoutedTouchesOwnInstance ==
    /\ wrap.routed = "A" => "B" \notin wrap.touched
    /\ wrap.routed = "B" => "A" \notin wrap.touched

\* SMUFF_CUT DEVICE=b was sent to SCB while SCA was connected as well
C14_Witness ==
    /\ wrap.op = "cut" /\ wrap.device = "b" /\ wrap.routed = "B"
    /\ wrap.touched = {"B"}
    /\ wrap.SCA.isConnected
    /\ wrap.SCB.written = <<CUT>>

\* C15: once SMUFF_INSTANCE has selected B, every later handler that is
\* routed and carries no DEVICE parameter is routed to B (until
\* SMUFF_INSTANCE selects A).
C15_SelectionSticks ==
    (wrap.selected = "B" /\ wrap.routed # "" /\ wrap.device \in {"", "none"}) =>
        wrap.routed = "B"

(***************************************************************************)
(* Properties of what is parsed from the device's lines (SpecParse)        *)
(***************************************************************************)
\* C16: a JSON payload leaves each configuration table either as it was or
\* as a complete sequence of _toolCount entries, never empty or partly
\* filled.
C16_TablesWholeOrUntouched ==
    [][\A l \in JsonLines :
          (ReaderLine(l) /\ StartsWith(l, R_JSON)) =>
              \A table \in {"materials", "swaps", "servoMaps", "feedStates"} :
                  \/ self'[table] = self[table]
                  \/ Len(self'[table]) = self'.toolCount]_vars

\* C17: after a states line with SPL: the load state is the one the tool
\* and the SPL: value of that line give: -1 without a tool, else 0 for 0,
\* 1 for 0x01 and 0x10, 2 for 0x02 and 0x20, 3 for 0x40, and for any other
\* value what that line gives whatever the lines before it were.
C17_LoadStateFromLine ==
    dev.last # <<>> =>
        LET tool == dev.last[1]
            spl  == dev.last[2]
        IN  IF tool = "T-1" THEN self.loadState = -1
            ELSE IF spl = 0 THEN self.loadState = 0
            ELSE IF spl \in {1, 16} THEN self.loadState = 1
            ELSE IF spl \in {2, 32} THEN self.loadState = 2
            ELSE IF spl = 64 THEN self.loadState = 3
            ELSE self.loadState =
                     ParseSerialData(Ready, SplLine(tool, spl), FALSE, "no").loadState

(***************************************************************************)
(* Properties of the shared connection (SpecSession)                       *)
(***************************************************************************)
\* the commands written that the device has not answered to the end: those
\* it has not taken, and the one whose terminal line is still to come
Unanswered ==
    (Len(self.written) - (dev.next - 1)) + (IF dev.pending # <<>> THEN 1 ELSE 0)

\* C18: at most one command is outstanding per connection: a command is
\* written only when every command written before has been answered to the
\* end by the device, or the tool change timeout has run out since the
\* session began.
C18_OneOutstanding ==
    [][ Len(self'.written) > Len(self.written) =>
            \/ Unanswered = 0
            \/ now - self.tcStartTime > TcTimeout ]_vars

\* the positions in what was written of the tool select commands
ToolSelects == { i \in DOMAIN self.written : StartsWith(self.written[i], TOOL) }

\* the tool select command of the session under way has been written and
\* the reader has processed the "error:" line the device answered it with
SelectFailed ==
    /\ tc.phase \in {"run", "done"}
    /\ \E k \in 1..Len(tc.trace) : tc.trace[k] = 3
    /\ \E i \in ToolSelects :
          /\ \A j \in ToolSelects : j <= i
          /\ i \in dev.failed

\* C20: when the device answers the tool select command of a session with
\* an "error:" line, the session enters neither state 4 nor state 5,
\* whatever else is sent on the connection before the next poll of state 3.
C20_ErrorSkipsToFinal ==
    SelectFailed => \A k \in 1..Len(tc.trace) : tc.trace[k] \notin {4, 5}

Entered(stage) == \E k \in 1..Len(tc.trace) : tc.trace[k] = stage

\* C21: when the echo of the tool select command and then "ok" arrive while
\* the session waits in state 3, the session goes on to state 4 and does not
\* end in state 6 by the timeout, also when another "ok" was processed
\* between the write of the command and its answer.
C21_AnswerAdvances ==
    (tc.phase \in {"run", "done"} /\ tc.got = 2 /\ Entered(6)) => Entered(4)

\* a call of the timer of the session: neither a line nor a command nor time
TimerCall == nLines' = nLines /\ nCmds' = nCmds /\ now' = now /\ self' # self

\* C22: in state 3, with the tagged command unresolved and the tool change
\* timeout exceeded since the start of state 1, the call of the timer goes to
\* state 6 and writes nothing; a session that went from 3 to 6 has entered
\* neither state 4 (feed state query) nor state 5 (POST_TOOLCHANGE).
C22_TimeoutFinalizes ==
    /\ [][ ( /\ self.tcTimer /\ self.tcState = 3 /\ ~self.lastCmdDone
             /\ now - self.tcStartTime > TcTimeout
             /\ TimerCall )
           => self'.tcState = 6 /\ self'.written = self.written ]_vars
    /\ [](\A k \in 1..(Len(tc.trace) - 1) :
            (tc.trace[k] = 3 /\ tc.trace[k + 1] = 6) => ~Entered(4) /\ ~Entered(5))

C22_Witness ==
    /\ tc.phase = "run" /\ self.tcState = 6 /\ ~self.lastCmdDone
    /\ now - self.tcStartTime > TcTimeout
    /\ Len(tc.trace) >= 2 /\ tc.trace[Len(tc.trace) - 1] = 3
    /\ tc.trace[Len(tc.trace)] = 6

\* C23: a session whose PRE_TOOLCHANGE macro has thrown in state 1 ends
\* through state 6, where its duration is added to the total, and has
\* entered no other state: the tool select command is not sent.
C23_PreFailureFinalizes ==
    (tc.phase = "done" /\ tc.macroFail /\ ~Entered(5)) => tc.trace = <<1, 6>>

\* C24: whenever POST_TOOLCHANGE is called in state 5, its first argument is
\* the tool that was selected before the change and its second argument the
\* tool the session was requested for, and the two differ.
C24_PostMacroArguments ==
    self.postArgs # <<>> =>
        /\ self.postArgs[2] = self.postArgs[3]
        /\ self.postArgs[1] # self.postArgs[2]

(***************************************************************************)
(* Properties of the session and its statistics (SpecStats)                *)
(***************************************************************************)
\* C26: whenever state 6 runs, the number of tool changes is at least 1, so
\* that the average is defined and the call of the timer does not fail, also
\* when SMUFF_RESET_AVG is handled while the session runs.
C26_AverageDefined ==
    /\ (self.tcTimer /\ self.tcState = 6) => self.tcCount >= 1
    /\ tc.phase # "failed"

\* C25: every session that was started ends: the timer reaches state 0 and
\* is unregistered, so that the next request is accepted, whatever the
\* device sends and whether or not a macro fails.
C25_SessionTerminates ==
    self.tcTimer ~> (~self.tcTimer /\ self.tcState = 0)

\* C27: a session runs, and a tool select command is written, only for a
\* tool t with 0 <= t < toolCount.
C27_SessionOnlyForValidTool ==
    /\ self.tcTimer => self.pendingTool \in 0..(self.toolCount - 1)
    /\ \A i \in ToolSelects :
          ParseToolNumber(FirstElement(self.written[i])) \in 0..(self.toolCount - 1)

(***************************************************************************)
(* Properties of the tool change requested by the device (SpecRemote)      *)
(***************************************************************************)
\* the answer written to the last request
RemoteReply == self.written[Len(self.written)]

\* C28: the request is honoured (the host changes the tool and "T: OK" is
\* written back) only if the host is not printing and the extruder can
\* extrude; while the host prints, the request is refused with a failure
\* text and the host's tool is left as it was.
C28_RemoteOnlyWhenNotPrinting ==
    (dev.host # <<>> /\ Len(self.written) > 0) =>
        LET printing == dev.host[1]
            extrude == dev.host[2]
            honoured == RemoteReply = ACTION_CMD \o " T: OK\n"
        IN  /\ honoured => (~printing /\ extrude = "yes")
            /\ printing => (~honoured /\ self.hostTool = dev.host[3])

\* C29: while a session is under way (states 1 to 6) the watchdog timeout is
\* the tool change timeout, and once the session has ended it is what it was
\* before the session.
C29_WatchdogWidened ==
    /\ (self.tcTimer /\ self.tcState \in 1..6) => self.wdTimeout = TcTimeout
    /\ tc.phase = "done" => self.wdTimeout = tc.wd0

(***************************************************************************)
(* Properties of the watchdog timeout around a call (SpecWrite)            *)
(***************************************************************************)
\* C30: whenever _send_SMuFF_and_wait returns (with a response, after an
\* error, after a timeout, or because the write failed) the watchdog timeout
\* is what it was before the call.
C30_WatchdogRestored ==
    main.pc = "return" => self.wdTimeout = main.wd0

(***************************************************************************)
(* Properties of a port closed underneath the module (SpecLost)            *)
(***************************************************************************)
\* the reader's loop has noticed the closed port and ended: the attribute
\* still refers to the thread, which runs no more
ReaderGone == self.lost /\ self.sreader /\ self.readers = 0 /\ self.serEvent

\* C31: once the port was closed underneath the module and the reader's loop
\* has noticed it and ended, the instance is eventually no longer connected
C31_LostPortDisconnects == ReaderGone ~> ~self.isConnected

(***************************************************************************)
(* Properties of the category of a JSON payload (SpecCategory)             *)
(***************************************************************************)
\* the category a category line names
CategoryNamed(l) ==
    CASE l = "/* Basic */\n" -> "basic"
      [] l = "/* Materials */\n" -> "materials"
      [] l = "/* Tool Swaps */\n" -> "tool swaps"
      [] l = "/* Servo Mapping */\n" -> "servo mapping"
      [] l = "/* Feed State */\n" -> "feed state"
      [] l = "/* Steppers */\n" -> "steppers"

\* the category whose payload fills the table, or sets the field
CategoryOf(field) ==
    CASE field = "materials" -> "materials"
      [] field = "swaps" -> "tool swaps"
      [] field = "servoMaps" -> "servo mapping"
      [] field = "feedStates" -> "feed state"
      [] OTHER -> "basic"

ConfigFields ==
    { "materials", "swaps", "servoMaps", "feedStates",
      "device", "toolCount", "hasCutter", "hasSplitter", "isDDE" }

\* C32: a category line records its category, which stays recorded until the
\* next payload; a payload changes only the table (or the basic fields) of
\* the recorded category and leaves no category recorded; a payload that
\* finds no category recorded changes nothing of the instance but the count
\* of the initialisation and the event cleared for every line.
C32_PayloadGoesToItsCategory ==
    [][\A l \in CategoryLines :
          ReaderLine(l) =>
              IF StartsWith(l, R_JSONCAT) THEN self'.jsonCat = CategoryNamed(l)
              ELSE IF StartsWith(l, R_JSON)
              THEN /\ self'.jsonCat = None
                   /\ \A f \in ConfigFields :
                          self'[f] # self[f] => self.jsonCat = CategoryOf(f)
                   /\ self.jsonCat = None =>
                          self' = [self EXCEPT !.initState = @ + 1, !.serEvent = FALSE]
              ELSE self'.jsonCat = self.jsonCat]_vars

\* a payload has filled the swaps table under its category line, and a
\* second payload came without one
C32_Witness ==
    /\ self.initState >= 2 /\ self.jsonCat = None /\ nLines = 3
    /\ self.swaps = <<0, 2>>
    /\ \A f \in ConfigFields \ {"swaps"} : self[f] = Ready[f]

(***************************************************************************)
(* Properties of the response an "ok" hands over (SpecWait)                *)
(***************************************************************************)
\* the lines in arrival order without those that echo the token
RECURSIVE WithoutEcho(_, _)
WithoutEcho(lines, token) ==
    IF lines = <<>> THEN ""
    ELSE IF RStrip(Head(lines), {"\n"}) = token THEN WithoutEcho(Tail(lines), token)
    ELSE Head(lines) \o WithoutEcho(Tail(lines), token)

\* C33: an "ok" hands the waiter the empty response when the error flag is
\* set, and otherwise the lines accumulated since the last terminator, in
\* arrival order and without the lines that echo the first token of the
\* command sent (up to the line end of the last line); it leaves the buffer
\* of accumulated lines empty.
C33_ResponseWithoutEcho ==
    [][ReaderLine(R_OK) =>
          /\ self'.lastResponse = <<>>
          /\ self'.response =
                 IF self.isError THEN ""
                 ELSE RStrip(WithoutEcho(self.lastResponse, self.lastCmdSent), {"\n"})]_vars

(***************************************************************************)
(* Properties of the initialisation once it is complete (SpecQuery)        *)
(***************************************************************************)
\* C34: after the initialisation the replies to the operator's queries of
\* the configuration tables leave the sequence where it is (_initState 0),
\* and no request of the initialisation is written again.
C34_QueriesLeaveInitAlone == self.initState = 0 /\ self.initLog = <<>>

(***************************************************************************)
(* Properties of a request during a session (SpecBusy)                     *)
(***************************************************************************)
\* a tool change request while the timer of a session is registered is
\* answered "not ready" and changes nothing of the instance
C35_BusySaysNotReady ==
    [][\A t \in -1..MaxTool :
          (ToolChangeRequest(t) /\ self.tcTimer) =>
              /\ self' = self
              /\ tc'.said = "T_NOT_READY"]_vars

\* C35: a tool change request while the timer of a session is registered
\* changes nothing of the instance (pending and active tool, stage, start
\* time, statistics, the timer: no second session); it is answered "not
\* ready" on a connected instance and "not connected" after a disconnect.
C35_BusyRejects ==
    [][\A t \in -1..MaxTool :
          (ToolChangeRequest(t) /\ self.tcTimer) =>
              /\ self' = self
              /\ tc'.said = IF self.isConnected THEN "T_NOT_READY"
                            ELSE "T_NOT_CONN"]_vars

\* a request for another tool was turned down while the session for tool 1
\* waited for the device
C35_Witness ==
    /\ tc.said = "T_NOT_READY"
    /\ self.tcTimer /\ self.tcState = 3
    /\ self.pendingTool = 1

(***************************************************************************)
(* Properties of the threads of a connection (SpecRace)                    *)
(***************************************************************************)
\* C36: at most one loop of the reader and one loop of the watchdog run at
\* any time, however the connect of the connector thread and SMUFF_CONN (and
\* a reconnect) interleave.
C36_OneReaderOneWatchdog == self.readers <= 1 /\ self.watchdogs <= 1

(***************************************************************************)
(* Properties of the ok-wait timer of SMUFF_LOAD and SMUFF_UNLOAD          *)
(* (SpecLoad)                                                              *)
(***************************************************************************)
\* C37: a registered ok-wait timer is eventually unregistered, whether the
\* device answers with the echo and "ok", with an "error:" line, or never.
C37_OkTimerReleased == self.okTimer ~> ~self.okTimer

(***************************************************************************)
(* Properties of the commands on an instance that is not connected         *)
(* (SpecOffline)                                                           *)
(***************************************************************************)
\* C38: a command bound for the device that finds the instance not
\* connected changes nothing of the instance (nothing written, no timer
\* registered, device state, pending tool and statistics as they were) and
\* starts no wait; in the module for two devices it changes neither core.
C38_OfflineChangesNothing ==
    [][/\ (DeviceOperation /\ ~self.isConnected) =>
              (self' = self /\ main' = main)
       /\ \A device \in Devices :
              (DualDeviceOperation(device)
                 /\ ~Instance(GetInstance(wrap, device)).isConnected) =>
                  (wrap'.SCA = wrap.SCA /\ wrap'.SCB = wrap.SCB)]_vars

\* a tool change request was turned down by the instance that SMUFF_DISC
\* had disconnected
C38_Witness ==
    /\ ~self.isConnected /\ tc.said = "T_NOT_CONN" /\ nCmds = 2
    /\ self = Closed

====
